---- MODULE Spec2Model ----
(***************************************************************************)
(* Model of the AITuber starter kit's comment admission queue              *)
(* (src/chat/comment_queue.py, src/chat/models.py) and of the response     *)
(* pipeline that drains it (src/pipeline.py, src/dashboard/api.py).        *)
(***************************************************************************)
EXTENDS Integers, Sequences, FiniteSets, TLC

VARIABLES
    _queue,        \* CommentQueue._queue: the heapq list (index 1 is heap[0])
    _max_size,     \* CommentQueue._max_size
    _ng_words,     \* CommentQueue._ng_words
    _ng_pattern,   \* CommentQueue._ng_pattern: None, or the compiled alternation
    _seen_ids,     \* CommentQueue._seen_ids
    _lock,         \* CommentQueue._lock: "free", or the call that holds it
    last,          \* the last call of the queue's driver: name, argument, result
    accepted_ids,  \* history: the ids for which some push returned True
    pushed,        \* history: the comments pushed so far (push-only runs), the
                   \* messages added so far (memory-only runs)
    _running,      \* AITuberPipeline._running
    avatar_controller,       \* AITuberPipeline.avatar_controller is not None
    _lip_sync,               \* AITuberPipeline._lip_sync is not None
    _expression_controller,  \* AITuberPipeline._expression_controller is not None
    memory_retriever,        \* AITuberPipeline.memory_retriever is not None
    _tasks,        \* AITuberPipeline._tasks: the generation of its tasks, 0 if empty
    task,          \* the state of each asyncio task of each generation
    loop,          \* _process_comments of each generation: the await it is at
    _messages,     \* ConversationMemory._messages
    _max_messages, \* ConversationMemory._max_messages
    _is_syncing,   \* LipSyncController._is_syncing
    _current_value,  \* LipSyncController._current_value, a quotient
    mouth,         \* the value of the last avatar.set_lip_sync call
    sync,          \* each call of sync_with_audio or LipSyncController.stop: the
                   \* await it is at
    play,          \* AudioPlayer.play: the state of the play call made together
                   \* with each sync_with_audio call
    expression,    \* the avatar adapter: the expression it accepted last and the
                   \* set_expression call it is serving
    chat_client,   \* AITuberPipeline.chat_client: the class of the chat adapter
    _callbacks,    \* BaseChatClient._callbacks: how often _on_comment is registered;
                   \* TwitchChatClient._callback: 1 when _on_comment is registered
    _is_connected, \* BaseChatClient._is_connected
    start_frame,   \* each call of start(): the await it is at
    stop_frame,    \* each call of stop(): the await it is at, the tasks it gathers
    api,           \* the dashboard's start and stop handlers: the await each is at
    pipeline_status,  \* app.state.pipeline_status
    manual,        \* each send_manual_message request: the await it is at
    counters,      \* start() tasks not yet run; history: starts, requests, turns
    failed,        \* history: the last turn in which an adapter call raised
    _current_emotion  \* EmotionExpressionController._current_emotion

queue_data == <<_queue, _max_size, _ng_words, _ng_pattern, _seen_ids>>
queue_vars == <<queue_data, _lock>>
vars == <<_queue, _max_size, _ng_words, _ng_pattern, _seen_ids, _lock, last,
          accepted_ids, pushed, _running, avatar_controller, _lip_sync,
          _expression_controller, memory_retriever, _tasks, task, loop, _messages,
          _max_messages, chat_client, _is_syncing, _current_value, mouth, sync,
          play, expression, _callbacks, _is_connected, start_frame, stop_frame, api,
          pipeline_status, manual, counters, failed, _current_emotion>>

----------------------------------------------------------------------------
(* Bounds of the model *)

\* largest max_size a queue is constructed with
MaxCap == 3
\* number of distinct comment ids the chat source can send
NumIds == 3
\* number of calls of AITuberPipeline.start() that find the pipeline stopped
MaxStartCalls == 1
\* number of start requests the dashboard accepts
MaxStartRequests == 1
\* number of start requests the dashboard accepts in a run without chat traffic
MaxStatusRequests == 2
\* number of start() tasks created and not yet run
MaxPendingStarts == 1
\* number of manual messages sent through the dashboard
MaxManualCalls == 1
\* number of distinct comment ids the chat source sends to the pipeline
NumPipelineIds == 2
\* number of distinct comment ids the chat source sends in a run that records
\* the queue's calls
NumProducerIds == 3
\* largest limit of a conversation memory
MaxMessagesLimit == 3
\* number of messages added to a conversation memory
MaxAdds == 5
\* number of start() calls that register the pipeline's callback on one chat
\* client
MaxRegistrations == 2
\* number of comments of a chat source that falls silent
NumFairIds == 2
\* number of sync_with_audio calls on one lip sync controller
MaxSyncCalls == 2
\* the floats of the mouth value: the result of a smoothing is rounded down to
\* a multiple of 1 / MouthGrid
MouthGrid == 16
\* number of animation frames of one audio
MaxFrames == 2
\* length of the longest text analyzed for its emotion
MaxTextLen == 4
\* largest donation amount of a constructed comment
MaxDonation == 20000
\* largest priority a caller passes to the constructor
MaxSuppliedPriority == 2
\* number of comments of a push-only run
MaxPushes == 5
\* largest max_size of a push-only run
MaxPushCap == 3

Ids == 1..NumIds

----------------------------------------------------------------------------
(* Text: a str is a sequence of one-character strings *)

Whitespace == {" "}

\* str.lower() / re.IGNORECASE folding of one character
LowerChar(ch) ==
    CASE ch = "A" -> "a"
      [] ch = "B" -> "b"
      [] ch = "D" -> "d"
      [] ch = "H" -> "h"
      [] ch = "I" -> "i"
      [] ch = "W" -> "w"
      [] OTHER -> ch

RECURSIVE lstrip(_)
lstrip(s) ==
    IF s # <<>> /\ Head(s) \in Whitespace THEN lstrip(Tail(s)) ELSE s

RECURSIVE rstrip(_)
rstrip(s) ==
    IF s # <<>> /\ s[Len(s)] \in Whitespace
    THEN rstrip(SubSeq(s, 1, Len(s) - 1))
    ELSE s

\* str.strip()
strip(s) == rstrip(lstrip(s))

\* mutant of MatchesAt: the pattern compiled without re.IGNORECASE
MatchesAt_case_sensitive(word, s, pos) ==
    /\ pos + Len(word) - 1 <= Len(s)
    /\ \A k \in 1..Len(word) : word[k] = s[pos + k - 1]

\* re.match of one escaped literal word at position pos (1-based), IGNORECASE
MatchesAt(word, s, pos) ==
    /\ pos + Len(word) - 1 <= Len(s)
    /\ \A k \in 1..Len(word) : LowerChar(word[k]) = LowerChar(s[pos + k - 1])

\* re.Pattern.search for the alternation "w1|w2|...": scan the start positions
\* left to right, trying every alternative at each
RECURSIVE search_from(_, _, _)
search_from(words, s, pos) ==
    IF pos > Len(s) + 1 THEN FALSE
    ELSE IF \E w \in words : MatchesAt(w, s, pos) THEN TRUE
    ELSE search_from(words, s, pos + 1)

search(pattern, s) == search_from(pattern.words, s, 1)

NoPattern == [compiled |-> FALSE, words |-> {}]

\* CommentQueue._compile_ng_pattern
_compile_ng_pattern(words) ==
    IF words = {} THEN NoPattern
    ELSE [compiled |-> TRUE, words |-> words]

----------------------------------------------------------------------------
(* Comment (src/chat/models.py) *)

\* Comment._calculate_priority
Min(a, b) == IF a < b THEN a ELSE b

\* mutant of _calculate_priority: the donation bonus is not capped
_calculate_priority_uncapped(donation_amount, is_member, is_moderator) ==
    (IF donation_amount > 0 THEN 100 + donation_amount \div 100 ELSE 0)
    + (IF is_member THEN 20 ELSE 0)
    + (IF is_moderator THEN 10 ELSE 0)

_calculate_priority(donation_amount, is_member, is_moderator) ==
    (IF donation_amount > 0 THEN 100 + Min(donation_amount \div 100, 100) ELSE 0)
    + (IF is_member THEN 20 ELSE 0)
    + (IF is_moderator THEN 10 ELSE 0)

\* the dataclass __init__, line 44: the priority field before __post_init__ is
\* the caller's value, or the default 0 when the caller passes none
priority_field(supplied, priority) == IF supplied THEN priority ELSE 0

\* Comment.__init__ followed by Comment.__post_init__
Comment(id, message, is_member, is_moderator, donation_amount, priority) ==
    [id |-> id, message |-> message, is_member |-> is_member,
     is_moderator |-> is_moderator, donation_amount |-> donation_amount,
     priority |-> IF priority = 0
                  THEN _calculate_priority(donation_amount, is_member, is_moderator)
                  ELSE priority]

\* Python's None where a Comment is expected
None == [id |-> 0, message |-> <<>>, is_member |-> FALSE, is_moderator |-> FALSE,
         donation_amount |-> 0, priority |-> 0 - 1]

\* mutant of __lt__: the comparison the other way round
lt_ascending(self, other) == self.priority < other.priority

\* Comment.__lt__: "smaller" means higher priority
__lt__(self, other) == self.priority > other.priority

----------------------------------------------------------------------------
(* heapq, as called by CommentQueue; positions are Python's 0-based ones *)

RECURSIVE siftdown_loop(_, _, _, _)
siftdown_loop(heap, startpos, pos, newitem) ==
    IF pos > startpos
    THEN LET parentpos == (pos - 1) \div 2
             parent == heap[parentpos + 1]
         IN  IF __lt__(newitem, parent)
             THEN siftdown_loop([heap EXCEPT ![pos + 1] = parent],
                                startpos, parentpos, newitem)
             ELSE [heap EXCEPT ![pos + 1] = newitem]
    ELSE [heap EXCEPT ![pos + 1] = newitem]

\* heapq._siftdown
_siftdown(heap, startpos, pos) == siftdown_loop(heap, startpos, pos, heap[pos + 1])

RECURSIVE siftup_loop(_, _, _)
siftup_loop(heap, pos, childpos) ==
    IF childpos < Len(heap)
    THEN LET rightpos == childpos + 1
             c == IF rightpos < Len(heap)
                     /\ ~__lt__(heap[childpos + 1], heap[rightpos + 1])
                  THEN rightpos ELSE childpos
         IN  siftup_loop([heap EXCEPT ![pos + 1] = heap[c + 1]], c, 2 * c + 1)
    ELSE [heap |-> heap, pos |-> pos]

\* heapq._siftup
_siftup(heap, pos) ==
    LET newitem == heap[pos + 1]
        r == siftup_loop(heap, pos, 2 * pos + 1)
    IN  _siftdown([r.heap EXCEPT ![r.pos + 1] = newitem], pos, r.pos)

\* mutant of heappush: the new item is not sifted
heappush_no_sift(heap, item) == Append(heap, item)

\* heapq.heappush
heappush(heap, item) == _siftdown(Append(heap, item), 0, Len(heap))

\* heapq.heappop: the new heap and the returned item
heappop(heap) ==
    LET lastelt == heap[Len(heap)]
        rest == SubSeq(heap, 1, Len(heap) - 1)
    IN  IF rest # <<>>
        THEN [heap |-> _siftup([rest EXCEPT ![1] = lastelt], 0), item |-> rest[1]]
        ELSE [heap |-> rest, item |-> lastelt]

\* heapq.heappushpop: the new heap and the returned item
heappushpop(heap, item) ==
    IF heap # <<>> /\ __lt__(heap[1], item)
    THEN [heap |-> _siftup([heap EXCEPT ![1] = item], 0), item |-> heap[1]]
    ELSE [heap |-> heap, item |-> item]

----------------------------------------------------------------------------
(* CommentQueue (src/chat/comment_queue.py) *)

\* mutant of _is_valid: no duplicate check
_is_valid_no_dedup(comment) ==
    IF strip(comment.message) = <<>> THEN FALSE
    ELSE IF _ng_pattern.compiled /\ search(_ng_pattern, comment.message) THEN FALSE
    ELSE TRUE

\* CommentQueue._is_valid
_is_valid(comment) ==
    IF comment.id \in _seen_ids THEN FALSE
    ELSE IF strip(comment.message) = <<>> THEN FALSE
    ELSE IF _ng_pattern.compiled /\ search(_ng_pattern, comment.message) THEN FALSE
    ELSE TRUE

\* push, lines 131-135: the seen-id sets that adding id and trimming can leave.
\* list(set) has the set's hash order, so the slice drops an arbitrary
\* max_size elements.
track_seen(seen, id, max_size) ==
    LET added == seen \cup {id}
    IN  IF Cardinality(added) > max_size * 2
        THEN {added \ D : D \in {X \in SUBSET added : Cardinality(X) = max_size}}
        ELSE {added}

\* mutant of add_to_queue: no capacity check
add_to_queue_unbounded(heap, comment, max_size) == heappush(heap, comment)

\* push, lines 137-142: the heap after adding comment
add_to_queue(heap, comment, max_size) ==
    IF Len(heap) >= max_size
    THEN heappushpop(heap, comment).heap
    ELSE heappush(heap, comment)

\* the record of one queue call: argument, boolean result, returned comment and,
\* for set_ng_words, the word set passed
Call(op, arg, ret, out, words) ==
    [op |-> op, arg |-> arg, ret |-> ret, out |-> out, words |-> words]

\* push, pop and peek, lines 127, 156 and 167: the end of `async with
\* self._lock`. The body has no await, so the call that acquired the lock
\* releases it in the same step.
release_skipped(holder) == IF holder = "pop" THEN holder ELSE "free"

release(holder) == "free"

\* CommentQueue.push: its effect on the queue
push(comment) ==
    /\ _lock = "free"
    /\ _lock' = release("push")
    /\ IF ~_is_valid(comment)
       THEN UNCHANGED <<queue_data, accepted_ids>>
       ELSE /\ _seen_ids' \in track_seen(_seen_ids, comment.id, _max_size)
            /\ _queue' = add_to_queue(_queue, comment, _max_size)
            /\ accepted_ids' = accepted_ids \cup {comment.id}
            /\ UNCHANGED <<_max_size, _ng_words, _ng_pattern>>

\* CommentQueue.push, lines 128-129 and 148: the value it returns
push_returns(comment) == _is_valid(comment)

\* CommentQueue.pop: its effect on the queue
pop ==
    /\ _lock = "free"
    /\ _lock' = release("pop")
    /\ IF _queue # <<>>
       THEN /\ _queue' = heappop(_queue).heap
            /\ UNCHANGED <<_max_size, _ng_words, _ng_pattern, _seen_ids, accepted_ids>>
       ELSE UNCHANGED <<queue_data, accepted_ids>>

\* CommentQueue.pop, lines 157-159: the comment it returns
pop_returns == IF _queue # <<>> THEN heappop(_queue).item ELSE None

\* CommentQueue.peek: its effect on the queue
peek ==
    /\ _lock = "free"
    /\ _lock' = release("peek")
    /\ UNCHANGED <<queue_data, accepted_ids>>

\* CommentQueue.peek, lines 168-170: the comment it returns
peek_returns == IF _queue # <<>> THEN _queue[1] ELSE None

\* mutant of set_ng_words: the pattern is not recompiled
set_ng_words_no_recompile(words) ==
    /\ _ng_words' = words
    /\ UNCHANGED <<_queue, _max_size, _seen_ids, _lock, accepted_ids, _ng_pattern>>

\* CommentQueue.set_ng_words
set_ng_words(words) ==
    /\ _ng_words' = words
    /\ _ng_pattern' = _compile_ng_pattern(words)
    /\ UNCHANGED <<_queue, _max_size, _seen_ids, _lock, accepted_ids>>

\* CommentQueue.__init__
QueueInit(max_size, ng_words) ==
    /\ _queue = <<>>
    /\ _max_size = max_size
    /\ _ng_words = ng_words
    /\ _ng_pattern = _compile_ng_pattern(ng_words)
    /\ _seen_ids = {}
    /\ _lock = "free"
    /\ last = Call("init", None, FALSE, None, {})
    /\ accepted_ids = {}

----------------------------------------------------------------------------
(* ConversationMemory (src/ai/memory.py) *)

\* ConversationMemory.__init__: max_messages
DefaultMaxMessages == 20

\* ConversationMemory.__init__
MemoryInit(max_messages) ==
    /\ _messages = <<>>
    /\ _max_messages = max_messages

\* Python's list slice messages[start:]: a negative start counts from the end,
\* and the start is clamped to the list
slice_from(messages, start) ==
    LET first == IF start < 0
                 THEN (IF Len(messages) + start < 0 THEN 0 ELSE Len(messages) + start)
                 ELSE (IF start > Len(messages) THEN Len(messages) ELSE start)
    IN  SubSeq(messages, first + 1, Len(messages))

\* ConversationMemory._trim: messages[-max_messages:] when the list is too long
_trim(messages, max_messages) ==
    IF Len(messages) > max_messages
    THEN slice_from(messages, 0 - max_messages)
    ELSE messages

\* one Message; turn, the number of the turn that wrote it, is a history field
Message(role, content, turn) == [role |-> role, content |-> content, turn |-> turn]

\* mutant of add_user_message: the message is not recorded
add_user_message_dropped(messages, content, turn) == messages

\* ConversationMemory.add_user_message
add_user_message(messages, content, turn) ==
    _trim(Append(messages, Message("user", content, turn)), _max_messages)

\* mutant of add_assistant_message: the response is not recorded
add_assistant_message_dropped(messages, content, turn) == messages

\* ConversationMemory.add_assistant_message
add_assistant_message(messages, content, turn) ==
    _trim(Append(messages, Message("assistant", content, turn)), _max_messages)

\* ConversationMemory.get_context
get_context(messages) ==
    [j \in 1..Len(messages) |->
        [role |-> messages[j].role, content |-> messages[j].content]]

----------------------------------------------------------------------------
(* EmotionAnalyzer (src/expression/emotion_analyzer.py) *)

\* the characters of the keywords, named by their code points
Ch_SUKI == "U+597D"
Ch_KI == "U+304D"
Ch_DAI == "U+5927"
Ch_NAMIDA == "U+6D99"
Ch_IKARI == "U+6012"
Ch_E == "U+3048"
Ch_KOWA == "U+6016"
Ch_I == "U+3044"
Ch_IYA == "U+5ACC"
Ch_TE == "U+3066"
Ch_HE == "U+3078"
Ch_NA == "U+306A"
Ch_ZE == "U+305C"

\* EmotionAnalyzer.EMOTION_KEYWORDS, lines 51-105: the emotions in the order of
\* their declaration, each with some of its keywords: "suki" and "daisuki"
\* (one contains the other), "namida", "ikari", "ee" (it overlaps itself),
\* "kowai", "iya", "tehe", "naze"
EMOTION_KEYWORDS ==
    << [emotion |-> "happy", keywords |-> << <<Ch_SUKI, Ch_KI>>, <<Ch_DAI, Ch_SUKI, Ch_KI>> >>],
       [emotion |-> "sad", keywords |-> << <<Ch_NAMIDA>> >>],
       [emotion |-> "angry", keywords |-> << <<Ch_IKARI>> >>],
       [emotion |-> "surprised", keywords |-> << <<Ch_E, Ch_E>> >>],
       [emotion |-> "fearful", keywords |-> << <<Ch_KOWA, Ch_I>> >>],
       [emotion |-> "disgusted", keywords |-> << <<Ch_IYA>> >>],
       [emotion |-> "embarrassed", keywords |-> << <<Ch_TE, Ch_HE>> >>],
       [emotion |-> "thinking", keywords |-> << <<Ch_NA, Ch_ZE>> >>] >>

\* str.lower()
lower(s) == [k \in 1..Len(s) |-> LowerChar(s[k])]

\* str.count(sub): the occurrences of sub found from left to right, each search
\* resuming after the end of the occurrence before
RECURSIVE count_from(_, _, _)
count_from(s, sub, pos) ==
    IF pos + Len(sub) - 1 > Len(s) THEN 0
    ELSE IF SubSeq(s, pos, pos + Len(sub) - 1) = sub
         THEN 1 + count_from(s, sub, pos + (IF sub = <<>> THEN 1 ELSE Len(sub)))
         ELSE count_from(s, sub, pos + 1)

count(s, sub) == count_from(s, sub, 1)

\* analyze, lines 234-241: the score of one emotion, the sum over its keywords
RECURSIVE score_of(_, _, _)
score_of(normalized_text, keywords, k) ==
    IF k > Len(keywords) THEN 0
    ELSE count(normalized_text, lower(keywords[k]))
         + score_of(normalized_text, keywords, k + 1)

\* analyze, lines 231-243: scores, in the order of the keyword table
scores(normalized_text) ==
    [n \in 1..Len(EMOTION_KEYWORDS) |->
        [emotion |-> EMOTION_KEYWORDS[n].emotion,
         score |-> score_of(normalized_text, EMOTION_KEYWORDS[n].keywords, 1)]]

RECURSIVE sum_scores(_, _)
sum_scores(items, n) ==
    IF n > Len(items) THEN 0 ELSE items[n].score + sum_scores(items, n + 1)

\* mutant of insert_sorted: an item goes before the items of equal score
insert_sorted_before_equal(sorted_items, item) ==
    LET before == {n \in 1..Len(sorted_items) : sorted_items[n].score > item.score}
        at == Cardinality(before)
    IN  SubSeq(sorted_items, 1, at) \o <<item>>
        \o SubSeq(sorted_items, at + 1, Len(sorted_items))

\* sorted(..., key=score, reverse=True) is stable: an item goes after the items
\* of greater or equal score already placed
insert_sorted(sorted_items, item) ==
    LET before == {n \in 1..Len(sorted_items) : sorted_items[n].score >= item.score}
        at == Cardinality(before)
    IN  SubSeq(sorted_items, 1, at) \o <<item>>
        \o SubSeq(sorted_items, at + 1, Len(sorted_items))

\* analyze, lines 254-258: sorted(scores.items(), key=..., reverse=True)
RECURSIVE sorted_desc(_, _)
sorted_desc(items, n) ==
    IF n = 0 THEN <<>> ELSE insert_sorted(sorted_desc(items, n - 1), items[n])

\* a float that is the quotient of two integers
Ratio(num, den) == [num |-> num, den |-> den]

\* mutant of intensity_of: the intensity is not capped at 1.0
intensity_uncapped(primary_score) == Ratio(primary_score, 3)

\* analyze, lines 266-267: min(1.0, primary_score / 3.0)
intensity_of(primary_score) ==
    IF primary_score >= 3 THEN Ratio(1, 1) ELSE Ratio(primary_score, 3)

\* EmotionAnalyzer.analyze
analyze(text) ==
    LET normalized_text == lower(text)
        all_scores == scores(normalized_text)
        total_matches == sum_scores(all_scores, 1)
        sorted_emotions == sorted_desc(all_scores, Len(all_scores))
        primary_score == sorted_emotions[1].score
    IN  IF total_matches = 0
        THEN [primary_emotion |-> "neutral", confidence |-> Ratio(1, 1),
              secondary_emotion |-> "none", intensity |-> Ratio(3, 10)]
        ELSE [primary_emotion |-> sorted_emotions[1].emotion,
              confidence |-> Ratio(primary_score, total_matches),
              secondary_emotion |->
                  IF Len(sorted_emotions) > 1 /\ sorted_emotions[2].score > 0
                  THEN sorted_emotions[2].emotion ELSE "none",
              intensity |-> intensity_of(primary_score)]

----------------------------------------------------------------------------
(* LipSyncController (src/expression/lip_sync.py) *)

RECURSIVE GCD(_, _)
GCD(a, b) == IF b = 0 THEN a ELSE GCD(b, a % b)

\* a float of the controller: the quotient num / den in lowest terms
Quot(num, den) ==
    IF num = 0 THEN Ratio(0, 1) ELSE Ratio(num \div GCD(num, den), den \div GCD(num, den))

Zero == Ratio(0, 1)

\* LipSyncController.__init__: smoothing
DefaultSmoothing == Ratio(3, 10)

\* sync_with_audio, lines 105-108:
\* smoothing * current_value + (1 - smoothing) * volume
smoothed(current_value, volume) ==
    LET num == DefaultSmoothing.num * current_value.num * volume.den
               + (DefaultSmoothing.den - DefaultSmoothing.num) * volume.num
                 * current_value.den
        den == DefaultSmoothing.den * current_value.den * volume.den
    IN  Quot((num * MouthGrid) \div den, MouthGrid)

\* _close_mouth, line 200: current_value > 0.01
still_open(current_value) == 100 * current_value.num > current_value.den

\* _close_mouth, line 201: current_value *= 0.5
halved(current_value) == Quot(current_value.num, 2 * current_value.den)

\* mutant of _close_mouth: the last value is left as it is, not set to 0
_close_mouth_no_zero(current_value) ==
    IF still_open(current_value)
    THEN [value |-> halved(current_value), pc |-> "close"]
    ELSE [value |-> current_value, pc |-> "closed"]

\* _close_mouth up to its next await: one halving sent to the avatar and the
\* sleep that follows (lines 200-203), or the value 0 sent to the avatar (lines
\* 205-206)
_close_mouth(current_value) ==
    IF still_open(current_value)
    THEN [value |-> halved(current_value), pc |-> "close"]
    ELSE [value |-> Zero, pc |-> "closed"]

\* the calls on one controller: sync_with_audio calls, then one stop() call
SyncCalls == 1..MaxSyncCalls
StopCall == MaxSyncCalls + 1
LipCalls == 1..(MaxSyncCalls + 1)

\* one call: the await it is at, the frames left to animate, and as history the
\* halvings of its _close_mouth and whether it began after stop() was called
NoSync == [pc |-> "none", frames |-> 0, halvings |-> 0, after_stop |-> FALSE]

\* LipSyncController.__init__, lines 47-51; no call of the controller yet
LipSyncInit ==
    /\ _is_syncing = FALSE
    /\ _current_value = Zero
    /\ mouth = Zero
    /\ sync = [k \in LipCalls |-> NoSync]

----------------------------------------------------------------------------
(* AITuberPipeline (src/pipeline.py) and the dashboard API (src/dashboard/api.py) *)

\* CommentQueue.__init__: max_size of the queue the pipeline constructs
DefaultMaxSize == 100

\* the calls of start() that find the pipeline stopped, numbered in order; the
\* tasks call i creates are the tasks of generation i
Generations == 1..MaxStartCalls

\* the callers of stop(): 0 is the dashboard's stop handler, i the finally
\* clause of start call i
StopCallers == 0..MaxStartCalls

ManualCalls == 1..MaxManualCalls

TaskNames == {"chat_listener", "comment_processor"}
NotDone == {"created", "running"}
Done == {"cancelled", "raised", "returned"}

\* the awaits of a turn at which the coroutine is suspended in an adapter call
TurnStages ==
    {"retrieve", "generate", "emotion", "store", "synthesize", "play", "play_sync",
     "await_lip", "await_audio"}
ManualStages == {"generate", "synthesize", "play", "play_sync"}

\* the text the LLM adapter returns, and the text of a manual message
Response == <<"o", "k">>
ManualText == <<"y", "o">>

NoTurn == [pc |-> "none", comment |-> None, turn |-> 0]
NoFrame == [pc |-> "idle", tasks |-> 0, logged |-> {}]
NoFailure == [tasks |-> 0, turn |-> 0]

queue_state == <<_queue, _max_size, _ng_words, _ng_pattern, _seen_ids, _lock, last,
                 accepted_ids, pushed>>
components == <<avatar_controller, _lip_sync, _expression_controller,
                memory_retriever>>
dashboard_state == <<api, pipeline_status, manual>>
lip_vars == <<_is_syncing, _current_value, mouth, sync>>
pipe_vars == <<_running, components, _tasks, task, loop, _messages, _max_messages,
               chat_client,
               lip_vars, play, expression,
               _callbacks,
               _is_connected, start_frame, stop_frame, dashboard_state, counters,
               failed, _current_emotion>>

\* the classes of chat adapter of create_chat_client: YouTubeChatClient, which
\* uses the listen loop of BaseChatClient, and TwitchChatClient
ChatClients == {"youtube", "twitch"}

\* BaseChatClient.__init__, lines 37-41, and TwitchChatClient.__init__, lines
\* 58-62: no callback, not connected
ChatInit(class) ==
    /\ chat_client = class
    /\ _callbacks = 0
    /\ _is_connected = FALSE

\* BaseChatClient.on_comment, line 94, appends the callback;
\* TwitchChatClient.on_comment, line 145, keeps only the last one
on_comment(callbacks) == IF chat_client = "twitch" THEN 1 ELSE callbacks + 1

\* AITuberPipeline.__init__ and create_app, the memory and the chat client
\* apart: avatar is whether an avatar controller is passed, retriever whether
\* main_async attaches a memory retriever
ComponentsInit(avatar, retriever) ==
    /\ _running = FALSE
    /\ avatar_controller = avatar
    /\ _lip_sync = avatar
    /\ _expression_controller = avatar
    /\ memory_retriever = retriever
    /\ _tasks = 0
    /\ task = [i \in Generations |-> [t \in TaskNames |-> "none"]]
    /\ loop = [i \in Generations |-> NoTurn]
    /\ LipSyncInit
    /\ play = [k \in SyncCalls |-> "none"]
    /\ expression = [accepted |-> "neutral", call |-> "none"]
    /\ start_frame = [i \in Generations |-> "none"]
    /\ stop_frame = [c \in StopCallers |-> NoFrame]
    /\ api = [start |-> "idle", stop |-> "idle"]
    /\ pipeline_status = "stopped"
    /\ manual = [k \in ManualCalls |-> [pc |-> "none", turn |-> 0]]
    /\ counters = [main |-> 0, requests |-> 0, pending |-> 0, starts |-> 0,
                   manuals |-> 0, turns |-> 0]
    /\ failed = NoFailure
    /\ _current_emotion = "neutral"

\* AITuberPipeline.__init__, line 85: the memory has the default limit;
\* main_async, line 66: the chat client is a YouTubeChatClient
PipelineInit(avatar, retriever) ==
    /\ ComponentsInit(avatar, retriever)
    /\ ChatInit("youtube")
    /\ MemoryInit(DefaultMaxMessages)

(* stop() *)

\* stop, lines 195-209, called by c: the early return, or the flag reset, the
\* cancellation of the tasks of the list that are not done and the wait for them
stop_enter_unguarded(c) ==
    /\ _running' = FALSE
    /\ task' = [i \in Generations |-> [t \in TaskNames |->
                  IF i = _tasks /\ task[i][t] \in NotDone
                  THEN "cancelling" ELSE task[i][t]]]
    /\ stop_frame' = [stop_frame EXCEPT
          ![c] = [pc |-> IF _tasks # 0 THEN "wait" ELSE "chat", tasks |-> _tasks,
                  logged |-> {}]]

stop_enter(c) ==
    IF ~_running
    THEN /\ stop_frame' = [stop_frame EXCEPT ![c] = [pc |-> "done", tasks |-> 0, logged |-> {}]]
         /\ UNCHANGED <<_running, task>>
    ELSE /\ _running' = FALSE
         /\ task' = [i \in Generations |-> [t \in TaskNames |->
                       IF i = _tasks /\ task[i][t] \in NotDone
                       THEN "cancelling" ELSE task[i][t]]]
         /\ stop_frame' = [stop_frame EXCEPT
               ![c] = [pc |-> IF _tasks # 0 THEN "wait" ELSE "chat", tasks |-> _tasks,
                       logged |-> {}]]

\* stop, lines 208-213: the gathered tasks have ended; the list is cleared
StopWaitDone(c) ==
    /\ stop_frame[c].pc = "wait"
    /\ \A t \in TaskNames : task[stop_frame[c].tasks][t] \in Done
    /\ _tasks' = 0
    /\ stop_frame' = [stop_frame EXCEPT ![c].pc = "chat"]
    /\ UNCHANGED <<_running, components, task, loop, _messages, _max_messages, chat_client, lip_vars, play, expression, _callbacks,
                   _is_connected, start_frame, dashboard_state, counters, failed, _current_emotion,
                   queue_state>>

\* stop, lines 212-228: each release step runs in its own try/except, which logs
\* a warning and lets stop() go on with the next step
after_release_propagates(ok, next) == IF ok THEN next ELSE "raised"

after_release(ok, next) == next

\* stop, lines 212-228: the warnings logged by the except clauses of this call
log_warning(c, ok, step) ==
    IF ok THEN stop_frame[c].logged ELSE stop_frame[c].logged \cup {step}

\* stop, lines 212-219: chat_client.disconnect() returned or raised; a
\* disconnect that raised has not reset the adapter's connection flag
StopChatDone(c, ok) ==
    /\ stop_frame[c].pc = "chat"
    /\ _is_connected' = IF ok THEN FALSE ELSE _is_connected
    /\ stop_frame' = [stop_frame EXCEPT
          ![c].pc = after_release(ok, IF avatar_controller THEN "avatar" ELSE "tts"),
          ![c].logged = log_warning(c, ok, "chat")]
    /\ UNCHANGED <<_running, components, _tasks, task, loop, _messages, _max_messages, chat_client, lip_vars, play, expression, _callbacks,
                   start_frame, dashboard_state, counters, failed, _current_emotion, queue_state>>

\* stop, lines 218-226: avatar_controller.disconnect() returned or raised
StopAvatarDone(c, ok) ==
    /\ stop_frame[c].pc = "avatar"
    /\ stop_frame' = [stop_frame EXCEPT
          ![c].pc = after_release(ok, "tts"),
          ![c].logged = log_warning(c, ok, "avatar")]
    /\ UNCHANGED <<_running, components, _tasks, task, loop, _messages, _max_messages, chat_client, lip_vars, play, expression, _callbacks,
                   _is_connected, start_frame, dashboard_state, counters, failed, _current_emotion,
                   queue_state>>

\* stop, lines 225-230: tts_engine.close() returned or raised; stop returns
StopTtsDone(c, ok) ==
    /\ stop_frame[c].pc = "tts"
    /\ stop_frame' = [stop_frame EXCEPT
          ![c].pc = after_release(ok, "done"),
          ![c].logged = log_warning(c, ok, "tts")]
    /\ UNCHANGED <<_running, components, _tasks, task, loop, _messages, _max_messages, chat_client, lip_vars, play, expression, _callbacks,
                   _is_connected, start_frame, dashboard_state, counters, failed, _current_emotion,
                   queue_state>>

(* start() *)

\* main_async, line 218: asyncio.create_task(pipeline.start())
MainCreateTask ==
    /\ counters.main = 0
    /\ counters.pending < MaxPendingStarts
    /\ counters' = [counters EXCEPT !.main = 1, !.pending = @ + 1]
    /\ UNCHANGED <<_running, components, _tasks, task, loop, _messages, _max_messages, chat_client, lip_vars, play, expression, _callbacks,
                   _is_connected, start_frame, stop_frame, dashboard_state, failed, _current_emotion,
                   queue_state>>

\* start, lines 127-136, when a created start() task first runs: the early
\* return, or the flag set and chat_client.connect() awaited. The calls that
\* pass the test are numbered in order.
StartEnter ==
    /\ counters.pending > 0
    /\ IF _running
       THEN /\ counters' = [counters EXCEPT !.pending = @ - 1]
            /\ UNCHANGED <<_running, start_frame>>
       ELSE /\ counters.starts < MaxStartCalls
            /\ _running' = TRUE
            /\ start_frame' = [start_frame EXCEPT
                                  ![counters.starts + 1] = "connect_chat"]
            /\ counters' = [counters EXCEPT !.pending = @ - 1, !.starts = @ + 1]
    /\ UNCHANGED <<components, _tasks, task, loop, _messages, _max_messages, chat_client, lip_vars, play, expression, _callbacks,
                   _is_connected, stop_frame, dashboard_state, failed, _current_emotion, queue_state>>

\* start, lines 136-142: chat_client.connect() returned
ChatConnected(i) ==
    /\ start_frame[i] = "connect_chat"
    /\ _is_connected' = TRUE
    /\ start_frame' = [start_frame EXCEPT
          ![i] = IF avatar_controller THEN "connect_avatar" ELSE "check_tts"]
    /\ UNCHANGED <<_running, components, _tasks, task, loop, _messages, _max_messages, chat_client, lip_vars, play, expression, _callbacks,
                   stop_frame, dashboard_state, counters, failed, _current_emotion, queue_state>>

\* start, lines 136 and 177-181: chat_client.connect() raised; the finally
\* clause calls stop()
ChatConnectFailed(i) ==
    /\ start_frame[i] = "connect_chat"
    /\ stop_enter(i)
    /\ start_frame' = [start_frame EXCEPT ![i] = "in_stop_raise"]
    /\ UNCHANGED <<components, _tasks, loop, _messages, _max_messages, chat_client, lip_vars, play, expression, _callbacks, _is_connected,
                   dashboard_state, counters, failed, _current_emotion, queue_state>>

\* start, lines 140-150: avatar_controller.connect() returned or raised
AvatarConnectDone(i, ok) ==
    /\ start_frame[i] = "connect_avatar"
    /\ avatar_controller' = ok
    /\ _lip_sync' = ok
    /\ start_frame' = [start_frame EXCEPT ![i] = "check_tts"]
    /\ UNCHANGED <<_running, _expression_controller, memory_retriever, _tasks, task,
                   loop, _messages, _max_messages, chat_client, lip_vars, play, expression, _callbacks, _is_connected, stop_frame,
                   dashboard_state, counters, failed, _current_emotion, queue_state>>

\* start, lines 150-173: tts_engine.is_available() returned; the callback is
\* registered, both tasks are created and start() waits for them
SpawnTasks(i) ==
    /\ start_frame[i] = "check_tts"
    /\ _callbacks' = on_comment(_callbacks)
    /\ _tasks' = i
    /\ task' = [task EXCEPT ![i] = [t \in TaskNames |-> "created"]]
    /\ loop' = [loop EXCEPT ![i] = [NoTurn EXCEPT !.pc = "start"]]
    /\ start_frame' = [start_frame EXCEPT ![i] = "gather"]
    /\ UNCHANGED <<_running, components, _messages, _max_messages, chat_client, lip_vars, play, expression, _is_connected, stop_frame,
                   dashboard_state, counters, failed, _current_emotion, queue_state>>

\* start, lines 173-181: gather(*tasks, return_exceptions=True) returns once
\* both tasks have ended; the finally clause calls stop()
StartGatherDone(i) ==
    /\ start_frame[i] = "gather"
    /\ \A t \in TaskNames : task[i][t] \in Done
    /\ stop_enter(i)
    /\ start_frame' = [start_frame EXCEPT ![i] = "in_stop"]
    /\ UNCHANGED <<components, _tasks, loop, _messages, _max_messages, chat_client, lip_vars, play, expression, _callbacks, _is_connected,
                   dashboard_state, counters, failed, _current_emotion, queue_state>>

\* mutant of start_outcome: the error of chat_client.connect() is swallowed
start_outcome_swallowed(pc) == "returned"

\* start, lines 175-181: how start() ends once its stop() has returned; the
\* error of chat_client.connect() is re-raised
start_outcome(pc) == IF pc = "in_stop_raise" THEN "raised" ELSE "returned"

\* start, line 181: its stop() returned; start returns, or re-raises the error
\* of chat_client.connect()
StartReturn(i) ==
    /\ start_frame[i] \in {"in_stop", "in_stop_raise"}
    /\ stop_frame[i].pc = "done"
    /\ start_frame' = [start_frame EXCEPT ![i] = start_outcome(start_frame[i])]
    /\ stop_frame' = [stop_frame EXCEPT ![i] = NoFrame]
    /\ UNCHANGED <<_running, components, _tasks, task, loop, _messages, _max_messages, chat_client, lip_vars, play, expression, _callbacks,
                   _is_connected, dashboard_state, counters, failed, _current_emotion, queue_state>>

(* the two background tasks *)

\* task.cancel() takes effect: CancelledError is raised at the await the task is
\* suspended in and ends it (_safe_task, lines 187-188; _process_comments,
\* lines 260-261)
TaskCancelled(i, t) ==
    /\ task[i][t] = "cancelling"
    /\ task' = [task EXCEPT ![i][t] = "cancelled"]
    /\ loop' = IF t = "comment_processor"
               THEN [loop EXCEPT ![i] = [NoTurn EXCEPT !.pc = "done"]]
               ELSE loop
    /\ UNCHANGED <<_running, components, _tasks, _messages, _max_messages, chat_client, lip_vars, play, expression, _callbacks,
                   _is_connected, start_frame, stop_frame, dashboard_state,
                   counters, failed, _current_emotion, queue_state>>

\* BaseChatClient.start_listening, lines 131-134: the connection check
ListenerStart(i) ==
    /\ task[i]["chat_listener"] = "created"
    /\ task' = [task EXCEPT ![i]["chat_listener"] =
                   IF _is_connected THEN "running" ELSE "raised"]
    /\ UNCHANGED <<_running, components, _tasks, loop, _messages, _max_messages, chat_client, lip_vars, play, expression, _callbacks,
                   _is_connected, start_frame, stop_frame, dashboard_state,
                   counters, failed, _current_emotion, queue_state>>

\* the comments the chat source sends: ids in the order of first admission
PipelineComments ==
    { Comment(id, <<"h", "i">>, FALSE, FALSE, d, 0) :
        id \in 1..Min(NumPipelineIds, Cardinality(accepted_ids) + 1),
        d \in {500} }

\* start_listening, lines 134-135, _notify_callbacks and _on_comment: a comment
\* arrives and every registered callback pushes it. The pushes after the first
\* find its id in _seen_ids, or its message as invalid as before, and change
\* nothing.
receive(i, c) ==
    /\ task[i]["chat_listener"] = "running"
    /\ _callbacks >= 1
    /\ push(c)
    /\ UNCHANGED <<pushed, pipe_vars>>

\* a comment arrives, in a run that keeps no record of the queue's calls
Receive(i) ==
    /\ \E c \in PipelineComments : receive(i, c)
    /\ UNCHANGED last

\* the comments the chat source sends in a run that records the queue's calls:
\* ids in the order of first admission, from viewers of priority 0 and 105
ProducerComments ==
    { Comment(id, <<"h", "i">>, FALSE, FALSE, d, 0) :
        id \in 1..Min(NumProducerIds, Cardinality(accepted_ids) + 1),
        d \in {0, 500} }

\* a comment arrives, in a run that records the queue's last call
ReceiveTraced(i) ==
    \E c \in ProducerComments :
        /\ receive(i, c)
        /\ last' = Call("push", c, push_returns(c), None, {})

\* start_listening, lines 134-135, and _safe_task: fetch_comments raises; the
\* error is logged and re-raised, and the task ends with it
ListenerFails(i) ==
    /\ task[i]["chat_listener"] = "running"
    /\ task' = [task EXCEPT ![i]["chat_listener"] = "raised"]
    /\ UNCHANGED <<_running, components, _tasks, loop, _messages, _max_messages, chat_client, lip_vars, play, expression, _callbacks,
                   _is_connected, start_frame, stop_frame, dashboard_state,
                   counters, failed, _current_emotion, queue_state>>

\* start_listening, line 134: fetch_comments is exhausted, the stream has ended
ListenerEnds(i) ==
    /\ task[i]["chat_listener"] = "running"
    /\ task' = [task EXCEPT ![i]["chat_listener"] = "returned"]
    /\ UNCHANGED <<_running, components, _tasks, loop, _messages, _max_messages, chat_client, lip_vars, play, expression, _callbacks,
                   _is_connected, start_frame, stop_frame, dashboard_state,
                   counters, failed, _current_emotion, queue_state>>

\* _handle_comment, lines 319-332: the await that follows emotion analysis
after_emotion == IF memory_retriever THEN "store" ELSE "synthesize"

\* the emotions the analyzer finds in a response
Emotions == {"neutral", "happy"}

\* what analyze_and_map does with a response: it raises, or it finds an emotion
AnalysisOutcomes == Emotions \cup {"raise"}

\* _handle_comment, lines 309-317, and process_text, lines 350-358: the emotion
\* the expression controller holds after the analysis
emotion_after(outcome) ==
    IF _expression_controller /\ outcome \in Emotions THEN outcome
    ELSE _current_emotion

\* _handle_comment, lines 307-332, and process_text, lines 350-358: the await
\* that follows the memory update. set_expression is called on the controller's
\* own avatar reference when the emotion found differs from the current one.
after_generate(outcome) ==
    IF /\ _expression_controller
       /\ outcome \in Emotions
       /\ outcome # _current_emotion
    THEN "emotion"
    ELSE after_emotion

\* _handle_comment, lines 340-348: playback alone, or together with lip sync
playback == IF _lip_sync /\ avatar_controller THEN "play_sync" ELSE "play"

\* mutant of handle_exception: the turn's exception ends the processor task
handle_exception_propagates(i) == [pc |-> "done", task |-> "raised"]

\* _handle_comment, lines 352-353: the turn's exception is caught and logged,
\* _process_comments goes on to its sleep
handle_exception(i) == [pc |-> "sleep", task |-> "running"]

\* _process_comments, lines 254-258: pop returned None, and the loop goes to its
\* sleep of response_interval
idle_wait_busy == "start"

idle_wait == "sleep"

\* mutant of iteration_starts: the body of the loop runs once
iteration_starts_once == {"start"}

\* _process_comments, lines 249 and 258: `while self._running` is tested when the
\* task starts and after every sleep of response_interval
iteration_starts == {"start", "sleep"}

\* _process_comments, lines 249-258, and _handle_comment up to its first await:
\* the loop test, the pop and the start of the turn
process_next(i) ==
    /\ task[i]["comment_processor"] \in NotDone
    /\ loop[i].pc \in iteration_starts
    /\ IF ~_running
       THEN /\ loop' = [loop EXCEPT ![i] = [NoTurn EXCEPT !.pc = "done"]]
            /\ task' = [task EXCEPT ![i]["comment_processor"] = "returned"]
            /\ UNCHANGED <<queue_vars, accepted_ids, counters>>
       ELSE /\ pop
            /\ task' = [task EXCEPT ![i]["comment_processor"] = "running"]
            /\ IF _queue # <<>>
               THEN /\ loop' = [loop EXCEPT ![i] =
                          [pc |-> IF memory_retriever THEN "retrieve" ELSE "generate",
                           comment |-> pop_returns,
                           turn |-> counters.turns + 1]]
                    /\ counters' = [counters EXCEPT !.turns = @ + 1]
               ELSE /\ loop' = [loop EXCEPT ![i] = [NoTurn EXCEPT !.pc = idle_wait]]
                    /\ UNCHANGED counters
    /\ UNCHANGED <<_running, components, _tasks, _messages, _max_messages, chat_client, lip_vars, play, expression, _callbacks,
                   _is_connected, start_frame, stop_frame, dashboard_state, failed, _current_emotion,
                   pushed>>

\* an iteration of the loop begins, in a run that keeps no record of the
\* queue's calls
ProcessNext(i) ==
    /\ process_next(i)
    /\ UNCHANGED last

\* an iteration of the loop begins, in a run that records the queue's last call
ProcessNextTraced(i) ==
    /\ process_next(i)
    /\ last' = IF _running THEN Call("pop", None, FALSE, pop_returns, {}) ELSE last

\* the processor task of generation i is suspended at the await named stage
AtStage(i, stage) ==
    /\ task[i]["comment_processor"] = "running"
    /\ loop[i].pc = stage

\* the frame of the steps of a turn
TurnFrame ==
    UNCHANGED <<_running, components, _tasks, _callbacks, _is_connected,
                start_frame, stop_frame, dashboard_state, counters, queue_state>>

\* _handle_comment, lines 286-292, 310-317 and 321-329: retrieval, emotion
\* analysis and storage each run in their own try/except, which logs a warning
\* and lets the turn go on with the next stage
nonfatal_propagates(ok, next) == IF ok THEN next ELSE "sleep"

nonfatal(ok, next) == next

\* _handle_comment, lines 285-295: retrieve_context returned, or raised and the
\* error was logged
RetrieveDone(i, ok) ==
    /\ AtStage(i, "retrieve")
    /\ loop' = [loop EXCEPT ![i].pc = nonfatal(ok, "generate")]
    /\ failed' = IF ok THEN failed ELSE [tasks |-> i, turn |-> loop[i].turn]
    /\ UNCHANGED <<task, _messages, _max_messages, chat_client, lip_vars, play, expression, _current_emotion>>
    /\ TurnFrame

\* _handle_comment, lines 295-317: generate_response returned, both messages
\* are appended to the memory and the response is analyzed
GenerateDone(i, outcome) ==
    /\ AtStage(i, "generate")
    /\ _messages' = add_assistant_message(
                        add_user_message(_messages, loop[i].comment.message,
                                         loop[i].turn),
                        Response, loop[i].turn)
    /\ UNCHANGED <<_max_messages, chat_client, lip_vars, play, expression>>
    /\ _current_emotion' = emotion_after(outcome)
    /\ loop' = [loop EXCEPT ![i].pc =
                   nonfatal(~(_expression_controller /\ outcome = "raise"),
                            after_generate(outcome))]
    /\ failed' = IF _expression_controller /\ outcome = "raise"
                 THEN [tasks |-> i, turn |-> loop[i].turn]
                 ELSE failed
    /\ UNCHANGED task
    /\ TurnFrame

\* _handle_comment, lines 295 and 352-353: generate_response raised
GenerateFailed(i) ==
    /\ AtStage(i, "generate")
    /\ loop' = [loop EXCEPT ![i] = [NoTurn EXCEPT !.pc = handle_exception(i).pc]]
    /\ task' = [task EXCEPT ![i]["comment_processor"] = handle_exception(i).task]
    /\ failed' = [tasks |-> i, turn |-> loop[i].turn]
    /\ UNCHANGED <<_messages, _max_messages, chat_client, lip_vars, play, expression, _current_emotion>>
    /\ TurnFrame

\* process_text, lines 358-367, and _handle_comment, lines 314-332:
\* set_expression returned, or raised and the error was logged
EmotionDone(i, ok) ==
    /\ AtStage(i, "emotion")
    /\ loop' = [loop EXCEPT ![i].pc = nonfatal(ok, after_emotion)]
    /\ failed' = IF ok THEN failed ELSE [tasks |-> i, turn |-> loop[i].turn]
    /\ UNCHANGED <<task, _messages, _max_messages, chat_client, lip_vars, play, expression, _current_emotion>>
    /\ TurnFrame

\* _handle_comment, lines 322-332: store_interaction returned, or raised and
\* the error was logged
StoreDone(i, ok) ==
    /\ AtStage(i, "store")
    /\ loop' = [loop EXCEPT ![i].pc = nonfatal(ok, "synthesize")]
    /\ failed' = IF ok THEN failed ELSE [tasks |-> i, turn |-> loop[i].turn]
    /\ UNCHANGED <<task, _messages, _max_messages, chat_client, lip_vars, play, expression, _current_emotion>>
    /\ TurnFrame

\* _handle_comment, lines 332-348: synthesize returned; playback starts
SynthesizeDone(i) ==
    /\ AtStage(i, "synthesize")
    /\ loop' = [loop EXCEPT ![i].pc = playback]
    /\ UNCHANGED <<task, _messages, _max_messages, chat_client, lip_vars, play, expression, failed, _current_emotion>>
    /\ TurnFrame

\* _handle_comment, lines 332 and 352-353: synthesize raised
SynthesizeFailed(i) ==
    /\ AtStage(i, "synthesize")
    /\ loop' = [loop EXCEPT ![i] = [NoTurn EXCEPT !.pc = handle_exception(i).pc]]
    /\ task' = [task EXCEPT ![i]["comment_processor"] = handle_exception(i).task]
    /\ failed' = [tasks |-> i, turn |-> loop[i].turn]
    /\ UNCHANGED <<_messages, _max_messages, chat_client, lip_vars, play, expression, _current_emotion>>
    /\ TurnFrame

\* _handle_comment, lines 342-345: asyncio.gather goes on waiting after the
\* first of sync_with_audio and play has finished, for the other one
gather_returns_early(part) == "sleep"

gather(part) == IF part = "lip" THEN "await_audio" ELSE "await_lip"

\* _handle_comment, lines 342-345: sync_with_audio (part "lip") or play (part
\* "audio") is the first of the two to finish
GatherPartDone(i, part) ==
    /\ AtStage(i, "play_sync")
    /\ loop' = [loop EXCEPT ![i].pc = gather(part)]
    /\ UNCHANGED <<task, _messages, _max_messages, chat_client, lip_vars, play, expression, failed, _current_emotion>>
    /\ TurnFrame

\* _handle_comment, lines 340-350, and _process_comments, line 258: playback
\* alone, or the second of lip sync and playback, returned, AudioPlayer.play and
\* sync_with_audio having logged their own errors; the loop goes on to its sleep
PlayDone(i, ok) ==
    /\ loop[i].pc \in {"play", "await_lip", "await_audio"}
    /\ AtStage(i, loop[i].pc)
    /\ loop' = [loop EXCEPT ![i] = [NoTurn EXCEPT !.pc = "sleep"]]
    /\ failed' = IF ok THEN failed ELSE [tasks |-> i, turn |-> loop[i].turn]
    /\ UNCHANGED <<task, _messages, _max_messages, chat_client, lip_vars, play, expression, _current_emotion>>
    /\ TurnFrame

(* the dashboard's handlers *)

\* the frame of the steps of the dashboard's handlers
HandlerFrame ==
    UNCHANGED <<_running, components, _tasks, task, loop, _callbacks,
                _is_connected, failed, _current_emotion, queue_state>>

\* start_pipeline, lines 117-125: the status test, STARTING and its broadcast
ApiStartRequest(limit) ==
    /\ api.start = "idle"
    /\ counters.requests < limit
    /\ pipeline_status # "running"
    /\ pipeline_status' = "starting"
    /\ api' = [api EXCEPT !.start = "broadcast"]
    /\ counters' = [counters EXCEPT !.requests = @ + 1]
    /\ UNCHANGED <<_messages, _max_messages, chat_client, lip_vars, play, expression, start_frame, stop_frame, manual>>
    /\ HandlerFrame

\* start_pipeline, lines 117-125, for the requests of a pipeline run
ApiStartBegin == ApiStartRequest(MaxStartRequests)

\* start_pipeline, lines 128-134: the start() task is created and the status
\* becomes RUNNING
ApiStartSpawn ==
    /\ api.start = "broadcast"
    /\ counters.pending < MaxPendingStarts
    /\ counters' = [counters EXCEPT !.pending = @ + 1]
    /\ pipeline_status' = "running"
    /\ api' = [api EXCEPT !.start = "idle"]
    /\ UNCHANGED <<_messages, _max_messages, chat_client, lip_vars, play, expression, start_frame, stop_frame, manual>>
    /\ HandlerFrame

\* stop_pipeline, lines 143-151: the status test, STOPPING and its broadcast
ApiStopBegin ==
    /\ api.stop = "idle"
    /\ pipeline_status = "running"
    /\ pipeline_status' = "stopping"
    /\ api' = [api EXCEPT !.stop = "broadcast"]
    /\ UNCHANGED <<_running, components, _tasks, task, loop, _messages, _max_messages, chat_client, lip_vars, play, expression, _callbacks,
                   _is_connected, start_frame, stop_frame, manual, counters, failed, _current_emotion,
                   queue_state>>

\* stop_pipeline, line 153: pipeline.stop() is called
ApiStopCall ==
    /\ api.stop = "broadcast"
    /\ stop_enter(0)
    /\ api' = [api EXCEPT !.stop = "in_stop"]
    /\ UNCHANGED <<components, _tasks, loop, _messages, _max_messages, chat_client, lip_vars, play, expression, _callbacks, _is_connected,
                   start_frame, pipeline_status, manual, counters, failed, _current_emotion,
                   queue_state>>

\* stop_pipeline, lines 155-158: pipeline.stop() returned
ApiStopReturn ==
    /\ api.stop = "in_stop"
    /\ stop_frame[0].pc = "done"
    /\ stop_frame' = [stop_frame EXCEPT ![0] = NoFrame]
    /\ pipeline_status' = "stopped"
    /\ api' = [api EXCEPT !.stop = "idle"]
    /\ UNCHANGED <<_messages, _max_messages, chat_client, lip_vars, play, expression, start_frame, manual, counters>>
    /\ HandlerFrame

\* send_manual_message, lines 194-201, and respond_to_text, lines 367-375: the
\* status test, then the request for a response
ManualRequest ==
    /\ counters.manuals < MaxManualCalls
    /\ IF pipeline_status # "running"
       THEN /\ manual' = [manual EXCEPT
                   ![counters.manuals + 1] = [pc |-> "http400", turn |-> 0]]
            /\ counters' = [counters EXCEPT !.manuals = @ + 1]
       ELSE /\ manual' = [manual EXCEPT
                   ![counters.manuals + 1] =
                       [pc |-> "generate", turn |-> counters.turns + 1]]
            /\ counters' = [counters EXCEPT !.manuals = @ + 1, !.turns = @ + 1]
    /\ UNCHANGED <<_messages, _max_messages, chat_client, lip_vars, play, expression, start_frame, stop_frame, api, pipeline_status>>
    /\ HandlerFrame

\* respond_to_text, lines 372-384: generate_response returned and both messages
\* are appended to the memory; or it raised (send_manual_message, lines 219-221)
ManualGenerateDone(k, ok) ==
    /\ manual[k].pc = "generate"
    /\ IF ok
       THEN /\ _messages' = add_assistant_message(
                               add_user_message(_messages, ManualText, manual[k].turn),
                               Response, manual[k].turn)
            /\ manual' = [manual EXCEPT ![k].pc = "synthesize"]
       ELSE /\ manual' = [manual EXCEPT ![k] = [pc |-> "http500", turn |-> 0]]
            /\ UNCHANGED _messages
    /\ UNCHANGED <<_max_messages, chat_client, lip_vars, play, expression, start_frame, stop_frame, api, pipeline_status,
                   counters>>
    /\ HandlerFrame

\* respond_to_text, lines 381-392: synthesize returned and playback starts, or
\* it raised (send_manual_message, lines 219-221)
ManualSynthesizeDone(k, ok) ==
    /\ manual[k].pc = "synthesize"
    /\ manual' = [manual EXCEPT
                     ![k] = IF ok THEN [@ EXCEPT !.pc = playback]
                            ELSE [pc |-> "http500", turn |-> 0]]
    /\ UNCHANGED <<_messages, _max_messages, chat_client, lip_vars, play, expression, start_frame, stop_frame, api, pipeline_status,
                   counters>>
    /\ HandlerFrame

\* respond_to_text, lines 386-394, and send_manual_message, lines 206-218:
\* playback returned and the response is sent
ManualPlayDone(k) ==
    /\ manual[k].pc \in {"play", "play_sync"}
    /\ manual' = [manual EXCEPT ![k] = [pc |-> "http200", turn |-> 0]]
    /\ UNCHANGED <<_messages, _max_messages, chat_client, lip_vars, play, expression, start_frame, stop_frame, api, pipeline_status,
                   counters>>
    /\ HandlerFrame

(* the pipeline in its process *)

InitPipeline ==
    /\ QueueInit(DefaultMaxSize, {})
    /\ pushed = <<>>
    /\ \E avatar \in BOOLEAN, retriever \in BOOLEAN : PipelineInit(avatar, retriever)

Stop ==
    \E c \in StopCallers :
        \/ StopWaitDone(c)
        \/ \E ok \in BOOLEAN :
              StopChatDone(c, ok) \/ StopAvatarDone(c, ok) \/ StopTtsDone(c, ok)

Start ==
    \/ MainCreateTask
    \/ StartEnter
    \/ \E i \in Generations :
          \/ ChatConnected(i) \/ ChatConnectFailed(i)
          \/ \E ok \in BOOLEAN : AvatarConnectDone(i, ok)
          \/ SpawnTasks(i) \/ StartGatherDone(i) \/ StartReturn(i)

Listener ==
    \E i \in Generations :
        \/ ListenerStart(i) \/ Receive(i) \/ ListenerEnds(i) \/ ListenerFails(i)
        \/ \E t \in TaskNames : TaskCancelled(i, t)

Processor ==
    \E i \in Generations :
        \/ ProcessNext(i)
        \/ GenerateFailed(i)
        \/ \E outcome \in AnalysisOutcomes : GenerateDone(i, outcome)
        \/ SynthesizeDone(i) \/ SynthesizeFailed(i)
        \/ \E part \in {"lip", "audio"} : GatherPartDone(i, part)
        \/ \E ok \in BOOLEAN :
              RetrieveDone(i, ok) \/ EmotionDone(i, ok) \/ StoreDone(i, ok)
                 \/ PlayDone(i, ok)

Dashboard ==
    \/ ApiStartBegin \/ ApiStartSpawn
    \/ ApiStopBegin \/ ApiStopCall \/ ApiStopReturn
    \/ ManualRequest
    \/ \E k \in ManualCalls :
          \/ ManualPlayDone(k)
          \/ \E ok \in BOOLEAN : ManualGenerateDone(k, ok) \/ ManualSynthesizeDone(k, ok)

NextPipeline == Start \/ Stop \/ Listener \/ Processor \/ Dashboard

SpecPipeline == InitPipeline /\ [][NextPipeline]_vars

\* the dashboard's lifecycle handlers over a pipeline whose chat stays silent:
\* the listener delivers no comment and no manual message is sent, so the turn
\* loop only polls the empty queue
NextStatus ==
    \/ Start \/ Stop
    \/ \E i \in Generations :
          \/ ListenerStart(i) \/ ListenerEnds(i) \/ ListenerFails(i)
          \/ \E t \in TaskNames : TaskCancelled(i, t)
          \/ ProcessNext(i)
    \/ ApiStartRequest(MaxStatusRequests) \/ ApiStartSpawn
    \/ ApiStopBegin \/ ApiStopCall \/ ApiStopReturn

SpecStatus == InitPipeline /\ [][NextStatus]_vars

\* the pipeline started by main_async and left running, with a record of the
\* last call of the queue: the listener pushes while the turn loop pops and
\* goes through its turns
NextProducer ==
    \/ MainCreateTask
    \/ StartEnter
    \/ \E i \in Generations :
          \/ ChatConnected(i)
          \/ \E ok \in BOOLEAN : AvatarConnectDone(i, ok)
          \/ SpawnTasks(i)
          \/ ListenerStart(i) \/ ReceiveTraced(i) \/ ListenerEnds(i) \/ ListenerFails(i)
          \/ ProcessNextTraced(i)
          \/ GenerateFailed(i)
          \/ \E outcome \in AnalysisOutcomes : GenerateDone(i, outcome)
          \/ SynthesizeDone(i) \/ SynthesizeFailed(i)
          \/ \E part \in {"lip", "audio"} : GatherPartDone(i, part)
          \/ \E ok \in BOOLEAN :
                RetrieveDone(i, ok) \/ EmotionDone(i, ok) \/ StoreDone(i, ok)
                   \/ PlayDone(i, ok)

SpecProducer == InitPipeline /\ [][NextProducer]_vars

\* the steps of the comment processor of generation i: the adapter call or the
\* sleep it awaits ends and the task is resumed
TurnLoop(i) ==
    \/ ProcessNextTraced(i)
    \/ GenerateFailed(i)
    \/ \E outcome \in AnalysisOutcomes : GenerateDone(i, outcome)
    \/ SynthesizeDone(i) \/ SynthesizeFailed(i)
    \/ \E part \in {"lip", "audio"} : GatherPartDone(i, part)
    \/ \E ok \in BOOLEAN :
          RetrieveDone(i, ok) \/ EmotionDone(i, ok) \/ StoreDone(i, ok)
             \/ PlayDone(i, ok)

\* the comments of a chat source that falls silent after NumFairIds comments
FairComments ==
    { Comment(id, <<"h", "i">>, FALSE, FALSE, d, 0) :
        id \in 1..Min(NumFairIds, Cardinality(accepted_ids) + 1),
        d \in {0, 500} }

\* a comment of that chat source arrives
ReceiveFair(i) ==
    \E c \in FairComments :
        /\ receive(i, c)
        /\ last' = Call("push", c, push_returns(c), None, {})

NextProducerFair ==
    \/ MainCreateTask
    \/ StartEnter
    \/ \E i \in Generations :
          \/ ChatConnected(i)
          \/ \E ok \in BOOLEAN : AvatarConnectDone(i, ok)
          \/ SpawnTasks(i)
          \/ ListenerStart(i) \/ ReceiveFair(i) \/ ListenerEnds(i) \/ ListenerFails(i)
          \/ TurnLoop(i)

\* the running pipeline under a fair event loop: every adapter call and every
\* sleep of the comment processor ends and the task is resumed
SpecProducerFair ==
    /\ InitPipeline
    /\ [][NextProducerFair]_vars
    /\ \A i \in Generations : WF_vars(TurnLoop(i))

----------------------------------------------------------------------------
(* The queue driven by arbitrary callers *)

Messages == { <<" ", " ">>, <<"h", "i">>, <<"x", "B", "a", "D">> }
NgVocabulary == { <<"b", "A", "d">> }

\* the (is_member, donation_amount) pairs of the comments sent: priorities 0, 20, 105
Senders == { <<FALSE, 0>>, <<TRUE, 0>>, <<FALSE, 500>> }

\* Ids are only ever compared for equality, so the chat source numbers its
\* comments in the order in which they are first admitted: a push carries an id
\* already admitted or the next unused one.
SendableIds == 1..Min(NumIds, Cardinality(accepted_ids) + 1)

\* The comments pushed: the plain message from every sender, the blank and the
\* banned message from a plain viewer (_is_valid reads no sender attribute).
Comments ==
    { Comment(id, <<"h", "i">>, s[1], FALSE, s[2], 0) :
        id \in SendableIds, s \in Senders }
    \cup { Comment(id, m, FALSE, FALSE, 0, 0) : id \in SendableIds, m \in Messages }

Init ==
    /\ \E max_size \in 0..MaxCap, words \in SUBSET NgVocabulary :
          QueueInit(max_size, words)
    /\ pushed = <<>>
    /\ PipelineInit(FALSE, FALSE)

Push ==
    \E c \in Comments :
        /\ push(c)
        /\ last' = Call("push", c, push_returns(c), None, {})
        /\ UNCHANGED <<pushed, pipe_vars>>

Pop ==
    /\ pop
    /\ last' = Call("pop", None, FALSE, pop_returns, {})
    /\ UNCHANGED <<pushed, pipe_vars>>

Peek ==
    /\ peek
    /\ last' = Call("peek", None, FALSE, peek_returns, {})
    /\ UNCHANGED <<pushed, pipe_vars>>

SetNgWords ==
    \E words \in SUBSET NgVocabulary :
        /\ set_ng_words(words)
        /\ last' = Call("set_ng_words", None, FALSE, None, words)
        /\ UNCHANGED <<pushed, pipe_vars>>

Next == Push \/ Pop \/ Peek \/ SetNgWords

Spec == Init /\ [][Next]_vars

----------------------------------------------------------------------------
(* Push-only runs: comments with distinct ids and valid messages *)

InitPushes ==
    /\ \E max_size \in 0..MaxPushCap : QueueInit(max_size, {})
    /\ pushed = <<>>
    /\ PipelineInit(FALSE, FALSE)

PushFresh ==
    /\ Len(pushed) < MaxPushes
    /\ \E s \in Senders :
          LET c == Comment(Len(pushed) + 1, <<"h", "i">>, s[1], FALSE, s[2], 0)
          IN  /\ push(c)
              /\ last' = Call("push", c, push_returns(c), None, {})
              /\ pushed' = Append(pushed, c)
              /\ UNCHANGED pipe_vars

NextPushes == PushFresh

SpecPushes == InitPushes /\ [][NextPushes]_vars

----------------------------------------------------------------------------
(* A conversation memory used on its own *)

MemoryContents == { <<"h", "i">>, Response }

\* ConversationMemory(max_messages) for any limit from 0
InitMemory ==
    /\ QueueInit(DefaultMaxSize, {})
    /\ pushed = <<>>
    /\ ComponentsInit(FALSE, FALSE)
    /\ ChatInit("youtube")
    /\ \E max_messages \in 0..MaxMessagesLimit : MemoryInit(max_messages)

memory_frame ==
    UNCHANGED <<queue_vars, last, accepted_ids, _max_messages, chat_client, lip_vars, play, expression, _running, components,
                _tasks, task, loop, _callbacks, _is_connected, start_frame,
                stop_frame, dashboard_state, counters, failed, _current_emotion>>

\* memory.add_user_message(content); pushed records the message
AddUserMessage ==
    \E content \in MemoryContents :
        /\ Len(pushed) < MaxAdds
        /\ _messages' = add_user_message(_messages, content, Len(pushed) + 1)
        /\ pushed' = Append(pushed, Message("user", content, Len(pushed) + 1))
        /\ memory_frame

\* memory.add_assistant_message(content); pushed records the message
AddAssistantMessage ==
    \E content \in MemoryContents :
        /\ Len(pushed) < MaxAdds
        /\ _messages' = add_assistant_message(_messages, content, Len(pushed) + 1)
        /\ pushed' = Append(pushed, Message("assistant", content, Len(pushed) + 1))
        /\ memory_frame

NextMemory == AddUserMessage \/ AddAssistantMessage

SpecMemory == InitMemory /\ [][NextMemory]_vars

----------------------------------------------------------------------------
(* The chat adapters delivering comments to the registered callback *)

\* a pipeline constructed over either class of chat adapter
InitAdapters ==
    /\ QueueInit(DefaultMaxSize, {})
    /\ pushed = <<>>
    /\ ComponentsInit(FALSE, FALSE)
    /\ MemoryInit(DefaultMaxMessages)
    /\ \E class \in ChatClients : ChatInit(class)

\* the comments the platform sends: ids in the order of first admission
AdapterComments ==
    { Comment(id, <<"h", "i">>, FALSE, FALSE, 0, 0) :
        id \in 1..Min(NumIds, Cardinality(accepted_ids) + 1) }

adapter_frame ==
    UNCHANGED <<components, _tasks, task, loop, _messages, _max_messages,
                chat_client, lip_vars, play, expression, start_frame, stop_frame,
                dashboard_state, counters, failed, _current_emotion>>

\* start, lines 127-168, with adapters whose calls return: the flag is set, the
\* chat client is connected and chat_client.on_comment(self._on_comment)
\* registers the callback
StartCycle ==
    /\ ~_running
    /\ _callbacks < MaxRegistrations
    /\ _running' = TRUE
    /\ _is_connected' = TRUE
    /\ _callbacks' = on_comment(_callbacks)
    /\ UNCHANGED <<queue_vars, accepted_ids, last, pushed>>
    /\ adapter_frame

\* stop, lines 193-230, with adapters whose calls return: the flag is reset and
\* the chat client is disconnected; no callback is removed, remove_callback
\* having no caller
StopCycle ==
    /\ _running
    /\ _running' = FALSE
    /\ _is_connected' = FALSE
    /\ UNCHANGED <<_callbacks, queue_vars, accepted_ids, last, pushed>>
    /\ adapter_frame

\* TwitchChatClient._handle_message, lines 165-169: the number of times the body
\* of the pipeline's callback runs. self._callback(comment) calls the coroutine
\* function _on_comment without awaiting it: the coroutine object it returns is
\* dropped and its body, the push, never runs
_handle_message_calls(callbacks) == 0

\* BaseChatClient._notify_callbacks, lines 111-116: the number of times the body
\* of the pipeline's callback runs, each registered callback being awaited
_notify_callbacks(callbacks) == callbacks

\* the number of pushes the adapter's delivery of one comment executes
deliveries ==
    IF chat_client = "twitch" THEN _handle_message_calls(_callbacks)
    ELSE _notify_callbacks(_callbacks)

\* a comment arrives from the platform: the listen loop of BaseChatClient
\* (start_listening, lines 134-135) or TwitchBot.event_message and
\* _handle_message deliver it; pushed records every push executed
CommentReceived ==
    \E c \in AdapterComments :
        /\ _running /\ _is_connected
        /\ Len(pushed) + deliveries <= MaxPushes
        /\ IF deliveries >= 1
           THEN push(c)
           ELSE UNCHANGED <<queue_vars, accepted_ids>>
        /\ pushed' = pushed \o [n \in 1..deliveries |-> c]
        /\ last' = Call("receive", c, FALSE, None, {})
        /\ UNCHANGED <<_callbacks, _running, _is_connected>>
        /\ adapter_frame

NextAdapters == StartCycle \/ StopCycle \/ CommentReceived

SpecAdapters == InitAdapters /\ [][NextAdapters]_vars

----------------------------------------------------------------------------
(* A lip sync controller used on its own, and with the audio player *)

\* a pipeline as constructed, before any call
InitDefault ==
    /\ QueueInit(DefaultMaxSize, {})
    /\ pushed = <<>>
    /\ PipelineInit(FALSE, FALSE)

\* the audio passed to sync_with_audio: bytes _parse_wav rejects, a WAV whose
\* frame rate gives samples_per_frame = 0 (line 89 raises ZeroDivisionError),
\* or a WAV of some number of animation frames
Audios ==
    {[kind |-> "unparsable", frames |-> 0], [kind |-> "zero_rate", frames |-> 0]}
    \cup {[kind |-> "wav", frames |-> n] : n \in 0..MaxFrames}

\* _calculate_volume: silence or full volume
Volumes == {Zero, Ratio(1, 1)}

\* the frame of the steps of the controller and of the audio player
speech_frame ==
    UNCHANGED <<queue_vars, last, accepted_ids, pushed, _running, components,
                _tasks, task, loop, _messages, _max_messages, chat_client, _callbacks,
                _is_connected, start_frame, stop_frame, dashboard_state, counters,
                failed, _current_emotion, expression>>

lip_frame == speech_frame /\ UNCHANGED play

\* sync_with_audio, lines 96-112: one frame, up to the sleep that follows it
animate_frame(k, volume) ==
    /\ _current_value' = smoothed(_current_value, volume)
    /\ mouth' = _current_value'
    /\ sync' = [sync EXCEPT ![k].pc = "frame", ![k].frames = @ - 1]

\* sync_with_audio, lines 116-118, and stop, line 211: _close_mouth up to its
\* next await
close_mouth(k) ==
    /\ _current_value' = _close_mouth(_current_value).value
    /\ mouth' = _current_value'
    /\ sync' = [sync EXCEPT ![k].pc = _close_mouth(_current_value).pc,
                            ![k].halvings =
                                IF still_open(_current_value) THEN @ + 1 ELSE @]

\* sync_with_audio is called, lines 71-112: it returns at once when a call is
\* syncing; otherwise it sets the flag and goes to its first frame, or, with
\* nothing to animate, to the closing of the mouth
sync_with_audio(k) ==
    \E audio \in Audios, volume \in Volumes :
        /\ sync[k].pc = "none"
        /\ \A j \in SyncCalls : j < k => sync[j].pc # "none"
        /\ IF _is_syncing
           THEN /\ sync' = [sync EXCEPT ![k].pc = "ignored"]
                /\ UNCHANGED <<_is_syncing, _current_value, mouth>>
           ELSE /\ _is_syncing' = TRUE
                /\ LET started == [sync EXCEPT ![k].frames = audio.frames,
                                               ![k].after_stop =
                                                   sync[StopCall].pc # "none"]
                   IN  IF audio.kind = "wav" /\ audio.frames > 0
                       THEN /\ _current_value' = smoothed(_current_value, volume)
                            /\ mouth' = _current_value'
                            /\ sync' = [started EXCEPT ![k].pc = "frame",
                                                       ![k].frames = @ - 1]
                       ELSE /\ _current_value' = _close_mouth(_current_value).value
                            /\ mouth' = _current_value'
                            /\ sync' = [started EXCEPT
                                           ![k].pc = _close_mouth(_current_value).pc,
                                           ![k].halvings =
                                               IF still_open(_current_value)
                                               THEN @ + 1 ELSE @]

\* sync_with_audio is called on its own
SyncEnter(k) == sync_with_audio(k) /\ lip_frame

\* sync_with_audio, lines 96-118: the sleep after a frame ended; the next frame
\* follows, or the closing of the mouth after the last frame or when the loop
\* raises
SyncFrame(k) ==
    \E volume \in Volumes, raised \in BOOLEAN :
        /\ sync[k].pc = "frame"
        /\ IF sync[k].frames > 0 /\ ~raised
           THEN animate_frame(k, volume)
           ELSE close_mouth(k)
        /\ UNCHANGED _is_syncing
        /\ lip_frame

\* _close_mouth, lines 200-206: the sleep after a halving ended
SyncClose(k) ==
    /\ sync[k].pc = "close"
    /\ close_mouth(k)
    /\ UNCHANGED _is_syncing
    /\ lip_frame

\* sync_with_audio, line 119: the mouth is closed, the flag is reset and the
\* call returns
SyncReturn(k) ==
    /\ k \in SyncCalls
    /\ sync[k].pc = "closed"
    /\ _is_syncing' = FALSE
    /\ sync' = [sync EXCEPT ![k].pc = "returned"]
    /\ UNCHANGED <<_current_value, mouth>>
    /\ lip_frame

\* LipSyncController.stop is called, lines 210-211: the flag is reset and the
\* closing of the mouth starts
LipStopEnter ==
    /\ sync[StopCall].pc = "none"
    /\ _is_syncing' = FALSE
    /\ close_mouth(StopCall)
    /\ lip_frame

\* LipSyncController.stop returns, line 211
LipStopReturn ==
    /\ sync[StopCall].pc = "closed"
    /\ sync' = [sync EXCEPT ![StopCall].pc = "returned"]
    /\ UNCHANGED <<_is_syncing, _current_value, mouth>>
    /\ lip_frame

\* a call that waits in a sleep or an avatar call goes on
SyncResume(k) == SyncFrame(k) \/ SyncClose(k) \/ SyncReturn(k)

NextLipSync ==
    \/ \E k \in SyncCalls : SyncEnter(k)
    \/ \E k \in LipCalls : SyncFrame(k)
    \/ \E k \in LipCalls : SyncClose(k)
    \/ \E k \in SyncCalls : SyncReturn(k)
    \/ LipStopEnter
    \/ LipStopReturn

SpecLipSync == InitDefault /\ [][NextLipSync]_vars

\* the controller as the pipeline uses it, which never calls its stop()
NextSyncCalls ==
    \/ \E k \in SyncCalls : SyncEnter(k)
    \/ \E k \in SyncCalls : SyncFrame(k)
    \/ \E k \in SyncCalls : SyncClose(k)
    \/ \E k \in SyncCalls : SyncReturn(k)

\* _handle_comment, lines 340-345, and respond_to_text, lines 386-390, with an
\* avatar connected: asyncio.gather starts sync_with_audio and AudioPlayer.play
\* for the audio of one response; call k is the k-th response to reach its
\* playback, in a turn of the loop or in a respond_to_text call
GatherStart(k) ==
    /\ play[k] = "none"
    /\ sync_with_audio(k)
    /\ play' = [play EXCEPT ![k] = "playing"]
    /\ speech_frame

\* AudioPlayer.play, lines 61-71: the executor has played the audio and play
\* returns
PlayEnds(k) ==
    /\ play[k] = "playing"
    /\ play' = [play EXCEPT ![k] = "done"]
    /\ UNCHANGED <<_is_syncing, _current_value, mouth, sync>>
    /\ speech_frame

\* the playback stages of the responses of one pipeline, whose turns and
\* respond_to_text calls share the controller and the player
NextPlayback ==
    \/ \E k \in SyncCalls : GatherStart(k)
    \/ \E k \in SyncCalls : SyncFrame(k)
    \/ \E k \in SyncCalls : SyncClose(k)
    \/ \E k \in SyncCalls : SyncReturn(k)
    \/ \E k \in SyncCalls : PlayEnds(k)

SpecPlayback == InitDefault /\ [][NextPlayback]_vars

\* the event loop resumes every call whose sleep or avatar call has ended
SpecLipSyncFair ==
    /\ InitDefault
    /\ [][NextSyncCalls]_vars
    /\ \A k \in SyncCalls : WF_vars(SyncResume(k))

----------------------------------------------------------------------------
(* Texts analyzed for their emotion *)

\* the characters of the texts: those of the first four emotions' keywords and
\* a Latin capital
TextAlphabet == {Ch_SUKI, Ch_KI, Ch_DAI, Ch_NAMIDA, Ch_IKARI, Ch_E, "W"}

Texts == UNION { [1..n -> TextAlphabet] : n \in 0..MaxTextLen }

\* analyzer.analyze(text), once per run since analyze keeps no state; last
\* records the text and the result
Analyze ==
    \E text \in Texts :
        /\ last.op = "init"
        /\ last' = Call("analyze", text, FALSE, analyze(text), {})
        /\ UNCHANGED <<queue_vars, accepted_ids, pushed, pipe_vars>>

NextAnalyze == Analyze

SpecAnalyze == InitDefault /\ [][NextAnalyze]_vars

----------------------------------------------------------------------------
(* The expression controller driving an avatar *)

\* a pipeline constructed with an avatar controller, which builds the
\* expression controller over it (__init__, lines 93-101)
InitExpression ==
    /\ QueueInit(DefaultMaxSize, {})
    /\ pushed = <<>>
    /\ PipelineInit(TRUE, FALSE)

\* the responses passed to process_text: one without any keyword and, for
\* each emotion, its first keyword
ResponseTexts ==
    {<<>>} \cup { EMOTION_KEYWORDS[e].keywords[1] : e \in 1..Len(EMOTION_KEYWORDS) }

\* get_expression_mapping, lines 291-294, over the default mappings, lines
\* 105-187: the expression is named after the emotion
expression_name(emotion) == emotion

expression_frame ==
    UNCHANGED <<queue_vars, last, accepted_ids, pushed, _running, components,
                _tasks, task, loop, _messages, _max_messages, chat_client,
                lip_vars, play, _callbacks, _is_connected, start_frame, stop_frame,
                dashboard_state, counters, failed>>

\* process_text, lines 350-360: the response is analyzed; when the emotion
\* differs from the current one it becomes the current one and set_expression
\* is awaited; otherwise the call returns
ProcessText ==
    \E text \in ResponseTexts :
        LET result == analyze(text)
        IN  /\ expression.call = "none"
            /\ IF result.primary_emotion # _current_emotion
               THEN /\ _current_emotion' = result.primary_emotion
                    /\ expression' =
                          IF avatar_controller
                          THEN [expression EXCEPT
                                   !.call = expression_name(result.primary_emotion)]
                          ELSE expression
               ELSE UNCHANGED <<_current_emotion, expression>>
            /\ expression_frame

\* process_text, lines 356-367: set_expression returned, the avatar showing the
\* expression, or raised and the error was logged; process_text returns
SetExpressionDone(ok) ==
    /\ expression.call # "none"
    /\ expression' = [accepted |-> IF ok THEN expression.call ELSE expression.accepted,
                      call |-> "none"]
    /\ UNCHANGED _current_emotion
    /\ expression_frame

NextExpression == ProcessText \/ \E ok \in BOOLEAN : SetExpressionDone(ok)

SpecExpression == InitExpression /\ [][NextExpression]_vars

----------------------------------------------------------------------------
(* Comments constructed by arbitrary callers *)

\* donation amounts around the steps of 100 and the cap of the bonus
Donations ==
    {0, 1, 99, 100, 101, 199, 200, 500, 9900, 9999, 10000, 10001, 10100, MaxDonation}

\* the priorities callers pass: negative, zero, positive
SuppliedPriorities == (0 - 1)..MaxSuppliedPriority \cup {105, 230, 300}

\* Comment(...) is constructed; last.arg holds the constructor's arguments and
\* whether a priority was among them, last.out the comment
Construct ==
    \E d \in Donations, m \in BOOLEAN, mod \in BOOLEAN, supplied \in BOOLEAN :
        \E prio \in IF supplied THEN SuppliedPriorities ELSE {0} :
            /\ last' = Call("Comment",
                            [donation_amount |-> d, is_member |-> m,
                             is_moderator |-> mod, priority |-> prio,
                             supplied |-> supplied],
                            FALSE,
                            Comment(1, <<"h", "i">>, m, mod, d,
                                    priority_field(supplied, prio)),
                            {})
            /\ UNCHANGED <<queue_vars, accepted_ids, pushed, pipe_vars>>

NextComment == Construct

SpecComment == InitDefault /\ [][NextComment]_vars

----------------------------------------------------------------------------
(* Helpers of the properties *)

Range(s) == {s[i] : i \in DOMAIN s}

\* the multiset of the elements of a sequence
BagOf(s) == [x \in Range(s) |-> Cardinality({i \in DOMAIN s : s[i] = x})]

Priorities(s) == [i \in DOMAIN s |-> s[i].priority]

RECURSIVE InsertDesc(_, _)
InsertDesc(x, s) ==
    IF s = <<>> THEN <<x>>
    ELSE IF x >= Head(s) THEN <<x>> \o s
    ELSE <<Head(s)>> \o InsertDesc(x, Tail(s))

RECURSIVE SortDesc(_)
SortDesc(s) == IF s = <<>> THEN <<>> ELSE InsertDesc(Head(s), SortDesc(Tail(s)))

\* the k greatest numbers of s, in descending order
TopK(s, k) == SubSeq(SortDesc(s), 1, Min(k, Len(s)))

MinPriority(q) == CHOOSE p \in Range(Priorities(q)) : \A r \in Range(Priorities(q)) : p <= r
MaxPriority(q) == CHOOSE p \in Range(Priorities(q)) : \A r \in Range(Priorities(q)) : p >= r

IsBlank(m) == \A i \in DOMAIN m : m[i] \in Whitespace

FoldCase(m) == [i \in DOMAIN m |-> LowerChar(m[i])]

\* some word of words occurs in m as a substring, letter case ignored
ContainsNgWord(m, words) ==
    \E w \in words : \E i \in 1..(Len(m) + 1) :
        /\ i + Len(w) - 1 <= Len(m)
        /\ SubSeq(FoldCase(m), i, i + Len(w) - 1) = FoldCase(w)

\* some word of words occurs in m letter for letter
OccursVerbatim(m, words) ==
    \E w \in words : \E i \in 1..(Len(m) + 1) :
        /\ i + Len(w) - 1 <= Len(m)
        /\ SubSeq(m, i, i + Len(w) - 1) = w

\* the step is a call of op
Called(op) == last'.op = op

----------------------------------------------------------------------------
(* Properties *)

\* C1: after pushes of comments with distinct ids and valid messages (no pops in
\* between) the priorities held by the queue are the max_size highest priorities
\* pushed so far; with max_size = 3 and priorities 0,0,0,0,105 the queue ends
\* with three comments, the priority-105 one among them.
C1_RetainsHighest ==
    /\ SortDesc(Priorities(_queue)) = TopK(Priorities(pushed), _max_size)
    /\ (_max_size = 3 /\ Priorities(pushed) = <<0, 0, 0, 0, 105>>)
          => (Len(_queue) = 3 /\ 105 \in Range(Priorities(_queue)))

\* C2: on a full queue, a valid push with a priority above the queue's minimum
\* replaces a minimum-priority comment by the new one, a valid push with a
\* priority at or below the minimum leaves the contents unchanged, and in neither
\* case is a maximum-priority comment removed.
C2_EvictsMinimum ==
    [][(/\ Called("push")
        /\ _max_size > 0
        /\ Len(_queue) = _max_size
        /\ _is_valid(last'.arg))
       => LET c == last'.arg
              mn == MinPriority(_queue)
              mx == MaxPriority(_queue)
          IN  /\ c.priority > mn =>
                    \E i \in DOMAIN _queue :
                        /\ _queue[i].priority = mn
                        /\ BagOf(_queue') =
                             BagOf(<<c>> \o SubSeq(_queue, 1, i - 1)
                                   \o SubSeq(_queue, i + 1, Len(_queue)))
              /\ c.priority <= mn => BagOf(_queue') = BagOf(_queue)
              /\ \A x \in Range(_queue) :
                    x.priority = mx => x \in Range(_queue')]_vars

\* C3: the queue never holds more than max_size comments.
C3_BoundedSize == Len(_queue) <= _max_size

\* C3 witness: an accepted push on a full queue (its comment was not retained)
C3_Witness ==
    /\ _max_size > 0
    /\ Len(_queue) = _max_size
    /\ last.op = "push" /\ last.ret
    /\ last.arg \notin Range(_queue)

\* C4: pop on a non-empty queue removes exactly one comment and returns it, and
\* no remaining comment has a higher priority; pop on an empty queue returns None
\* and changes nothing.
C4_PopReturnsMax ==
    [][Called("pop") =>
         IF _queue = <<>>
         THEN last'.out = None /\ UNCHANGED queue_vars
         ELSE /\ last'.out # None
              /\ Len(_queue') = Len(_queue) - 1
              /\ BagOf(<<last'.out>> \o _queue') = BagOf(_queue)
              /\ \A x \in Range(_queue') : last'.out.priority >= x.priority]_vars

\* C4 witness: a pop that left two comments of different, lower priority behind
C4_Witness ==
    /\ last.op = "pop" /\ last.out # None
    /\ Len(_queue) = 2
    /\ _queue[1].priority # _queue[2].priority
    /\ \A x \in Range(_queue) : x.priority < last.out.priority

\* C5 (as claimed): at most one push carrying an id returns true; every later
\* push carrying it returns false and leaves the queue length unchanged.
C5_AtMostOneAccept ==
    [][(Called("push") /\ last'.arg.id \in accepted_ids)
       => (~last'.ret /\ Len(_queue') = Len(_queue))]_vars

\* C5 (amended): a push carrying an id that is in the seen-id set returns false
\* and leaves the queue unchanged, and the seen-id set holds every id accepted so
\* far as long as no more than 2 * max_size distinct ids were accepted.
C5_DedupWhileRemembered ==
    /\ [](Cardinality(accepted_ids) <= 2 * _max_size => _seen_ids = accepted_ids)
    /\ [][(Called("push") /\ last'.arg.id \in _seen_ids)
          => (~last'.ret /\ _queue' = _queue)]_vars

\* C5 witness: a push rejected only because its id was already seen
C5_Witness ==
    /\ last.op = "push" /\ ~last.ret
    /\ last.arg.id \in _seen_ids
    /\ ~IsBlank(last.arg.message)
    /\ ~ContainsNgWord(last.arg.message, _ng_words)

\* C6: push returns true only if the pushed comment is held by the queue right
\* after the call; a valid comment dropped because the queue is at capacity makes
\* push return false.  (Stated for max_size > 0.)
C6_TrueOnlyIfHeld ==
    [][(Called("push") /\ _max_size > 0)
       => /\ last'.ret => last'.arg \in Range(_queue')
          /\ (_is_valid(last'.arg) /\ Len(_queue) >= _max_size
                 /\ last'.arg \notin Range(_queue')) => ~last'.ret]_vars

\* C7: a push whose message is empty, whitespace-only or contains a configured
\* NG word (case-insensitively) returns false and leaves the queue contents and
\* the seen-id set unchanged.
C7_RejectsFiltered ==
    [][(Called("push")
          /\ (IsBlank(last'.arg.message)
                \/ ContainsNgWord(last'.arg.message, _ng_words)))
       => (~last'.ret /\ _queue' = _queue /\ _seen_ids' = _seen_ids)]_vars

\* C7 witness: a comment with an unseen id rejected for an NG word that occurs
\* in it in another letter case
C7_Witness ==
    /\ last.op = "push" /\ ~last.ret
    /\ last.arg.id \notin _seen_ids
    /\ ~IsBlank(last.arg.message)
    /\ ContainsNgWord(last.arg.message, _ng_words)
    /\ ~OccursVerbatim(last.arg.message, _ng_words)

\* C8: set_ng_words(words) leaves the queued comments and the seen-id set
\* unchanged, and every push after it is filtered against exactly the words of
\* the latest call.
C8_NgWordsFrame ==
    /\ [][Called("set_ng_words")
          => (_queue' = _queue /\ _seen_ids' = _seen_ids
                /\ _ng_words' = last'.words)]_vars
    /\ [][~Called("set_ng_words") => _ng_words' = _ng_words]_vars
    /\ [][(Called("push") /\ last'.arg.id \notin _seen_ids
             /\ ~IsBlank(last'.arg.message))
          => (last'.ret <=> ~ContainsNgWord(last'.arg.message, _ng_words))]_vars

\* C8 witness: a comment containing a word banned after it was queued is popped
C8_Witness ==
    /\ last.op = "pop" /\ last.out # None
    /\ ContainsNgWord(last.out.message, _ng_words)

\* the turns in flight: those of the comment processors suspended in a stage of
\* _handle_comment and those of the manual requests inside respond_to_text
LoopTurns ==
    { loop[i].turn : i \in { j \in Generations : /\ task[j]["comment_processor"] = "running"
                                                 /\ loop[j].pc \in TurnStages } }
ManualTurns ==
    { manual[k].turn : k \in { j \in ManualCalls : manual[j].pc \in ManualStages } }
TurnsInFlight == LoopTurns \cup ManualTurns

\* the memory is a sequence of (user, assistant) pairs, each written by one
\* turn, in the order in which the turns began
MemoryInTurnOrder ==
    /\ Len(_messages) % 2 = 0
    /\ \A j \in 1..Len(_messages) :
          _messages[j].role = IF j % 2 = 1 THEN "user" ELSE "assistant"
    /\ \A j \in 1..Len(_messages) :
          j % 2 = 1 => _messages[j + 1].turn = _messages[j].turn
    /\ \A j, k \in 1..Len(_messages) :
          j < k => _messages[j].turn <= _messages[k].turn

\* C9: at most one conversational turn is in flight at any time, and the
\* conversation memory is the concatenation, in turn order, of the (user,
\* assistant) pairs of the turns.
C9_OneTurnInFlight ==
    /\ Cardinality(TurnsInFlight) <= 1
    /\ MemoryInTurnOrder

\* a step in which an adapter call of the comment processor of generation i
\* completes, by returning or by raising
AdapterCallEnds(i) ==
    /\ \E stage \in TurnStages : AtStage(i, stage)
    /\ loop'[i] # loop[i]

\* C10: an error in any stage of a turn does not terminate the turn loop: the
\* pipeline stays running, the comment processor stays alive at a later await
\* of the turn or at its sleep, and the next iteration of a running loop pops
\* the head of a non-empty queue and processes it.
C10_TurnLoopSurvivesErrors ==
    [][\A i \in Generations :
          /\ AdapterCallEnds(i)
                => /\ _running' = _running
                   /\ task'[i]["comment_processor"] = "running"
                   /\ loop'[i].pc \in TurnStages \cup {"sleep"}
          /\ (failed' # failed /\ failed'.tasks = i)
                => /\ AdapterCallEnds(i)
                   /\ failed'.turn = loop[i].turn
          /\ (/\ task[i]["comment_processor"] = "running"
              /\ loop[i].pc = "sleep"
              /\ loop'[i] # loop[i]
              /\ _running /\ _queue # <<>>)
                => /\ loop'[i].pc \in TurnStages
                   /\ loop'[i].comment = _queue[1]
                   /\ Len(_queue') = Len(_queue) - 1]_vars

\* C10 witness: after generate_response raised in a turn of a comment processor,
\* which left no message in the memory, the same processor is synthesizing the
\* response to a later comment
C10_Witness ==
    \E i \in Generations :
        /\ failed.tasks = i
        /\ \A j \in 1..Len(_messages) : _messages[j].turn # failed.turn
        /\ _running
        /\ AtStage(i, "synthesize")
        /\ loop[i].turn > failed.turn

\* the order of the awaits of a turn
StageRank(stage) ==
    CASE stage = "retrieve" -> 1
      [] stage = "generate" -> 2
      [] stage = "emotion" -> 3
      [] stage = "store" -> 4
      [] stage = "synthesize" -> 5
      [] stage \in {"play", "play_sync"} -> 6
      [] stage \in {"await_lip", "await_audio"} -> 7
      [] OTHER -> 0

\* a step of the comment processor of generation i from one await of a turn to
\* a later await of the same turn
TurnAdvances(i) ==
    /\ AdapterCallEnds(i)
    /\ loop'[i].pc \in TurnStages

\* C11: a turn-loop iteration whose generation, synthesis and playback succeed
\* goes through generation, synthesis and playback once each, in that order;
\* the step that ends generation appends (user, comment.message) and then
\* (assistant, response) to the memory, no other step of the turn changes the
\* memory, and playback is invoked by the step that ends synthesis only.
C11_TurnAppendsPairAndPlaysOnce ==
    [][\A i \in Generations :
          /\ (AtStage(i, "generate") /\ TurnAdvances(i))
                => _messages' = _messages \o
                      << Message("user", loop[i].comment.message, loop[i].turn),
                         Message("assistant", Response, loop[i].turn) >>
          /\ (AdapterCallEnds(i) /\ ~AtStage(i, "generate"))
                => _messages' = _messages
          /\ TurnAdvances(i)
                => /\ loop'[i].turn = loop[i].turn
                   /\ loop'[i].comment = loop[i].comment
                   /\ StageRank(loop'[i].pc) > StageRank(loop[i].pc)
          /\ (TurnAdvances(i) /\ StageRank(loop'[i].pc) = 6)
                => loop[i].pc = "synthesize"
          /\ (AtStage(i, "retrieve") /\ TurnAdvances(i))
                => loop'[i].pc = "generate"
          /\ (loop[i].pc \notin TurnStages /\ loop'[i].pc \in TurnStages)
                => loop'[i].pc \in {"retrieve", "generate"}]_vars

\* C11 witness: the first turn of the pipeline, a comment's, has run to the end
\* of its playback without any error and the memory holds its two entries
C11_Witness ==
    \E i \in Generations :
        /\ _running
        /\ task[i]["comment_processor"] = "running"
        /\ loop[i].pc = "sleep"
        /\ counters.turns = 1 /\ counters.manuals = 0
        /\ failed = NoFailure
        /\ _messages = << Message("user", <<"h", "i">>, 1),
                          Message("assistant", Response, 1) >>

\* start call i has ended
StartEnded(i) == start_frame[i] \in {"returned", "raised"}

C13_NoAvatarCallsAfterConnectFailure ==
    (\E i \in Generations : start_frame[i] = "gather") /\ ~avatar_controller
        => /\ ~_lip_sync
           /\ \A i \in Generations :
                 /\ \A t \in TaskNames : task[i][t] # "none"
                 /\ ~AtStage(i, "emotion")
                 /\ ~AtStage(i, "play_sync")
           /\ \A k \in ManualCalls : manual[k].pc # "play_sync"

\* the release stages of a stop() call: chat disconnect, avatar disconnect and
\* TTS close are awaited or about to be awaited
ReleaseStages == {"chat", "avatar", "tts"}

\* C14: while a stop() call that found the pipeline running releases the
\* adapters (chat disconnect, avatar disconnect, TTS close), no background task is
\* alive: every task that was created has been cancelled or has otherwise ended.
C14_ReleaseAfterTasksEnded ==
    \A c \in StopCallers :
        stop_frame[c].pc \in ReleaseStages
            => \A i \in Generations : \A t \in TaskNames :
                  task[i][t] \in Done \cup {"none"}

\* a start() call that has set _running and has not yet reached its own stop()
StartInProgress ==
    \E i \in Generations :
        start_frame[i] \in {"connect_chat", "connect_avatar", "check_tts", "gather"}

C16_StopWhenNotRunningIsNoOp ==
    [][\A c \in StopCallers :
          /\ (stop_frame[c].pc = "idle" /\ stop_frame'[c].pc # "idle" /\ ~_running)
                => /\ stop_frame'[c] = [NoFrame EXCEPT !.pc = "done"]
                   /\ UNCHANGED <<_running, _tasks, task, loop, _messages, _max_messages, chat_client, lip_vars, play, expression, _callbacks,
                                  _is_connected, components, failed, _current_emotion,
                                  queue_state, pipeline_status, manual>>
          /\ (stop_frame[c].pc = "done" /\ stop_frame'[c] # stop_frame[c])
                => stop_frame'[c] = NoFrame]_vars

\* C16 witness: the dashboard's stop() has completed and the stop() call that
\* start() makes afterwards in its finally clause has returned at once, leaving
\* the pipeline as the first call left it
C16_Witness ==
    \E i \in Generations :
        /\ start_frame[i] = "in_stop"
        /\ stop_frame[i] = [NoFrame EXCEPT !.pc = "done"]
        /\ pipeline_status = "stopped"
        /\ counters.requests > 0
        /\ ~_running
        /\ _tasks = 0

\* C17: when a stop() call that cancelled the background tasks of a running
\* pipeline has completed its last release step and returns, the admission queue
\* is empty.
C17_QueueEmptyAfterStop ==
    [][\A c \in StopCallers :
          (stop_frame[c].pc = "tts" /\ stop_frame'[c].pc = "done"
              /\ stop_frame[c].tasks # 0)
              => Len(_queue') = 0]_vars

\* C18: once the chat listener task has ended with an error while start() waits
\* for its tasks, start() is resumed by that error (its finally clause can run
\* stop()), and when start() returns after its listener raised, it raises.
C18_ListenerErrorEndsStart ==
    [][\A i \in Generations :
          /\ (task'[i]["chat_listener"] = "raised" /\ start_frame'[i] = "gather")
                => ENABLED StartGatherDone(i)
          /\ (task[i]["chat_listener"] = "raised" /\ start_frame[i] = "in_stop"
                /\ start_frame'[i] # "in_stop")
                => start_frame'[i] = "raised"]_vars

\* the status transitions of the lifecycle: STOPPED -> STARTING -> RUNNING ->
\* STOPPING -> STOPPED, and ERROR from STARTING or RUNNING
LegalTransitions ==
    { <<"stopped", "starting">>, <<"starting", "running">>,
      <<"running", "stopping">>, <<"stopping", "stopped">>,
      <<"starting", "error">>, <<"running", "error">> }

\* C19: every change of the pipeline status is one of the lifecycle's
\* transitions, whatever the interleaving of the start and stop handlers.
C19_StatusTransitions ==
    [][pipeline_status' # pipeline_status
          => <<pipeline_status, pipeline_status'>> \in LegalTransitions]_vars

\* C20: a failure of long-term retrieval, of emotion analysis (the analysis or
\* the expression call) or of long-term storage does not end the turn: whatever
\* its outcome, retrieval is followed by generation, a generation that returned
\* appends to the memory and is followed by the expression call, storage or
\* synthesis, the expression call by storage (with a retriever) or synthesis,
\* and storage by synthesis, for the same comment.
C20_NonFatalStagesContinue ==
    [][\A i \in Generations :
          /\ (AdapterCallEnds(i) /\ loop[i].pc \in {"retrieve", "emotion", "store"})
                => /\ loop'[i].pc \in TurnStages
                   /\ loop'[i].turn = loop[i].turn
                   /\ loop'[i].comment = loop[i].comment
          /\ (AdapterCallEnds(i) /\ AtStage(i, "retrieve"))
                => loop'[i].pc = "generate"
          /\ (AdapterCallEnds(i) /\ AtStage(i, "generate") /\ _messages' # _messages)
                => /\ loop'[i].pc \in {"emotion", "store", "synthesize"}
                   /\ loop'[i].turn = loop[i].turn
          /\ (AdapterCallEnds(i) /\ AtStage(i, "emotion"))
                => loop'[i].pc = IF memory_retriever THEN "store" ELSE "synthesize"
          /\ (AdapterCallEnds(i) /\ AtStage(i, "store"))
                => loop'[i].pc = "synthesize"]_vars

\* C20 witness: a turn of a pipeline with long-term memory in which a non-fatal
\* stage raised has appended its two memory entries and is at playback
C20_Witness ==
    \E i \in Generations :
        /\ memory_retriever
        /\ AtStage(i, "play") \/ AtStage(i, "play_sync")
        /\ failed = [tasks |-> i, turn |-> loop[i].turn]
        /\ Len(_messages) >= 2
        /\ _messages[Len(_messages)].turn = loop[i].turn

\* C21: respond_to_text leaves the admission queue alone, and the step that
\* ends its response generation appends the two memory entries and goes on to
\* the stage a queued turn goes on to in the same pipeline: the expression
\* update or, after it, the long-term record when there is a retriever, and
\* speech synthesis only when neither applies.
C21_ManualTurnSameStages ==
    [][\A k \in ManualCalls :
          manual'[k] # manual[k]
              => /\ UNCHANGED queue_vars
                 /\ (manual[k].pc = "generate" /\ _messages' # _messages)
                       => manual'[k].pc \in
                             { after_generate(outcome) : outcome \in AnalysisOutcomes }]_vars

\* C22: the queue lock is free in every state, so no call holds it across an
\* await, and while a turn is suspended in an adapter call (retrieval, LLM,
\* expression, storage, TTS, playback) the running listener's next push can
\* take its step.
C22_ProducerNotBlockedByTurn ==
    /\ _lock = "free"
    /\ \A i \in Generations :
          (/\ \E stage \in TurnStages : AtStage(i, stage)
           /\ task[i]["chat_listener"] = "running"
           /\ _callbacks >= 1)
              => ENABLED ReceiveTraced(i)

\* C22 witness: a turn that has already had a failing adapter call is suspended
\* in a later adapter call, and the queue's last call is a push of another
\* comment that the listener made after the pop of this turn, and that was
\* accepted and is in the queue
C22_Witness ==
    \E i \in Generations :
        /\ \E stage \in TurnStages : AtStage(i, stage)
        /\ failed = [tasks |-> i, turn |-> loop[i].turn]
        /\ last.op = "push"
        /\ last.ret
        /\ last.arg.id # loop[i].comment.id
        /\ \E j \in 1..Len(_queue) : _queue[j].id = last.arg.id
        /\ _lock = "free"

\* the step is a pop of the turn loop of generation i
LoopPops(i) ==
    /\ loop[i].pc \in {"start", "sleep"}
    /\ loop'[i] # loop[i]
    /\ _running

\* C23: with the listener's pushes and the turn loop's pops interleaved in any
\* order, the lock is free between the calls, the comment at the heap root has
\* the greatest priority of the queued comments, no id is queued twice, a step
\* that lengthens the queue is an accepted push that adds exactly its comment,
\* and a step that shortens it is a pop of the turn loop that removes exactly the
\* comment it hands to the turn, one of greatest priority.
C23_InterleavedCallsKeepHeap ==
    /\ [](/\ _lock = "free"
          /\ _queue # <<>> => _queue[1].priority = MaxPriority(_queue)
          /\ \A j, k \in DOMAIN _queue : _queue[j].id = _queue[k].id => j = k)
    /\ [][/\ Len(_queue') > Len(_queue)
               => /\ last'.op = "push" /\ last'.ret
                  /\ BagOf(_queue') = BagOf(_queue \o <<last'.arg>>)
          /\ Len(_queue') < Len(_queue)
               => \E i \in Generations :
                     /\ LoopPops(i)
                     /\ last'.op = "pop" /\ last'.out = loop'[i].comment
                     /\ BagOf(<<loop'[i].comment>> \o _queue') = BagOf(_queue)
                     /\ loop'[i].comment.priority = MaxPriority(_queue)
          /\ Len(_queue') = Len(_queue) => _queue' = _queue]_vars

\* C23 witness: while a turn is in progress for a comment popped earlier, the
\* listener's last push put a comment at the heap root, above a queued comment
\* of lower priority
C23_Witness ==
    \E i \in Generations :
        /\ \E stage \in TurnStages : AtStage(i, stage)
        /\ last.op = "push" /\ last.ret
        /\ Len(_queue) >= 2
        /\ _queue[1] = last.arg
        /\ _queue[2].priority < _queue[1].priority

\* C24: a turn loop pops only at its first iteration or on waking from its
\* sleep of response_interval: a pop that finds the queue empty is followed by
\* the sleep, a pop that returns a comment by its turn, every end of a turn of
\* a live loop by the sleep, and the loop is at its head only when its task
\* starts.
C24_SleepBetweenPops ==
    [][\A i \in Generations :
          /\ LoopPops(i)
                => /\ _queue = <<>> => loop'[i].pc = "sleep"
                   /\ _queue # <<>> => loop'[i].pc \in {"retrieve", "generate"}
          /\ (AdapterCallEnds(i) /\ loop'[i].pc \notin TurnStages)
                => loop'[i].pc = "sleep"
          /\ (loop'[i].pc = "start" /\ loop[i].pc # "start")
                => task[i]["comment_processor"] = "none"
          /\ (loop[i].pc = "sleep" /\ loop'[i].pc # "sleep"
                /\ task'[i]["comment_processor"] = "running" /\ _running)
                => LoopPops(i)]_vars

\* C24 witness: after a turn that reached the memory, the loop has popped again,
\* found the queue empty and is in its sleep
C24_Witness ==
    \E i \in Generations :
        /\ task[i]["comment_processor"] = "running"
        /\ loop[i].pc = "sleep"
        /\ last.op = "pop" /\ last.out = None
        /\ Len(_messages) >= 2
        /\ _running

SpecifiedPriority(args) ==
    LET bonus == args.donation_amount \div 100
    IN  (IF args.donation_amount > 0
         THEN 100 + (IF bonus <= 100 THEN bonus ELSE 100) ELSE 0)
        + (IF args.is_member THEN 20 ELSE 0)
        + (IF args.is_moderator THEN 10 ELSE 0)

\* C26: a comment constructed without a priority has the priority of the
\* specification's formula, which lies in 0..230.
C26_ComputedPriority ==
    (last.op = "Comment" /\ ~last.arg.supplied)
        => /\ last.out.priority = SpecifiedPriority(last.arg)
           /\ last.out.priority \in 0..230

\* C26 witness: a member and moderator whose donation is above the cap of the
\* bonus gets priority 230
C26_Witness ==
    /\ last.op = "Comment" /\ ~last.arg.supplied
    /\ last.arg.donation_amount > 10000
    /\ last.arg.is_member /\ last.arg.is_moderator
    /\ last.out.priority = 230

\* C27: a comment constructed with a priority p has priority p, whatever p, the
\* donation and the flags.
C27_SuppliedPriorityKept ==
    (last.op = "Comment" /\ last.arg.supplied)
        => last.out.priority = last.arg.priority

\* C28: on a queue of capacity 0 every push returns false and the queue stays
\* empty.
C28_ZeroCapacityRejects ==
    _max_size = 0 => /\ _queue = <<>>
                     /\ last.op = "push" => ~last.ret

\* C29: after n calls of add_user_message and add_assistant_message the memory
\* holds exactly the last min(n, max_messages) messages added, in the order in
\* which they were added, and get_context() returns them in that order.
C29_MemoryHoldsLastMessages ==
    LET n == Len(pushed)
        k == Min(n, _max_messages)
    IN  /\ _messages = SubSeq(pushed, n - k + 1, n)
        /\ get_context(_messages) =
              [j \in 1..k |-> [role |-> pushed[n - k + j].role,
                               content |-> pushed[n - k + j].content]]

\* some keyword of some emotion occurs in the text, letter case apart
KeywordOccurs(text) ==
    \E n \in 1..Len(EMOTION_KEYWORDS) :
        \E k \in 1..Len(EMOTION_KEYWORDS[n].keywords) :
            \E pos \in 1..Len(text) :
                MatchesAt(EMOTION_KEYWORDS[n].keywords[k], text, pos)

\* the total keyword-occurrence count of the n-th emotion of the table
TotalCount(text, n) ==
    LET kws == EMOTION_KEYWORDS[n].keywords
        Sum[k \in 0..Len(kws)] ==
            IF k = 0 THEN 0 ELSE Sum[k - 1] + count(lower(text), lower(kws[k]))
    IN  Sum[Len(kws)]

SameRatio(a, b) == a.num * b.den = b.num * a.den

\* C30: analyze(text) returns NEUTRAL with confidence 1.0 and intensity 0.3
\* exactly when no keyword occurs in the text; otherwise the primary emotion has
\* the greatest total count, and among the emotions of the greatest count it is
\* the one declared first in the keyword table.
C30_NeutralOrGreatestCount ==
    last.op = "analyze" =>
        LET text == last.arg
            result == last.out
        IN  /\ (/\ result.primary_emotion = "neutral"
                /\ SameRatio(result.confidence, Ratio(1, 1))
                /\ SameRatio(result.intensity, Ratio(3, 10)))
                  <=> ~KeywordOccurs(text)
            /\ KeywordOccurs(text) =>
                  \E n \in 1..Len(EMOTION_KEYWORDS) :
                      /\ result.primary_emotion = EMOTION_KEYWORDS[n].emotion
                      /\ \A m \in 1..Len(EMOTION_KEYWORDS) :
                            /\ TotalCount(text, m) <= TotalCount(text, n)
                            /\ m < n => TotalCount(text, m) < TotalCount(text, n)

\* C30 witness: "ikari" then "namida", one occurrence each of an ANGRY and of a
\* SAD keyword: the primary emotion is SAD, declared first, with confidence 1/2
C30_Witness ==
    /\ last.op = "analyze"
    /\ last.arg = <<Ch_IKARI, Ch_NAMIDA>>
    /\ last.out.primary_emotion = "sad"
    /\ last.out.secondary_emotion = "angry"
    /\ SameRatio(last.out.confidence, Ratio(1, 2))

\* a <= b and a < b for quotients of positive denominators
LeqRatio(a, b) == a.num * b.den <= b.num * a.den
LessRatio(a, b) == a.num * b.den < b.num * a.den

\* the place in the keyword table of the primary emotion of a result
PrimaryIndex(result) ==
    CHOOSE n \in 1..Len(EMOTION_KEYWORDS) :
        EMOTION_KEYWORDS[n].emotion = result.primary_emotion

\* C31: a non-neutral result has intensity min(1, primary_count / 3); a text with
\* fewer matches of its primary emotion never has a greater intensity, a text
\* with exactly one match has a strictly smaller intensity than one with two or
\* more, and three or more matches give 1.0.
C31_IntensityFromPrimaryCount ==
    (last.op = "analyze" /\ last.out.primary_emotion # "neutral") =>
        LET result == last.out
            primary_count == TotalCount(last.arg, PrimaryIndex(result))
        IN  /\ primary_count >= 1
            /\ IF primary_count >= 3
               THEN SameRatio(result.intensity, Ratio(1, 1))
               ELSE SameRatio(result.intensity, Ratio(primary_count, 3))
            /\ \A fewer \in 1..primary_count :
                  LeqRatio(intensity_of(fewer), result.intensity)
            /\ primary_count >= 2 => LessRatio(intensity_of(1), result.intensity)

\* C31 witness: four occurrences of "namida", SAD with intensity 1.0
C31_Witness ==
    /\ last.op = "analyze"
    /\ last.arg = <<Ch_NAMIDA, Ch_NAMIDA, Ch_NAMIDA, Ch_NAMIDA>>
    /\ last.out.primary_emotion = "sad"
    /\ SameRatio(last.out.intensity, Ratio(1, 1))

\* sync_with_audio call k is animating or closing the mouth
Animating(k) == sync[k].pc \in {"frame", "close", "closed"}

\* C32: a sync_with_audio call that starts animating leaves its frames only for
\* the closing of the mouth; each step of the closing halves the value and sends
\* it while it is above 0.01, and then sends exactly 0; the call returns only
\* after that, with is_syncing False; and under fair scheduling it does return.
C32_SyncClosesMouthAndReturns ==
    /\ [][\A k \in SyncCalls :
             /\ (Animating(k) /\ sync'[k].pc # sync[k].pc)
                   => \/ sync[k].pc = "frame" /\ sync'[k].pc \in {"close", "closed"}
                      \/ sync[k].pc = "close" /\ sync'[k].pc = "closed"
                      \/ sync[k].pc = "closed" /\ sync'[k].pc = "returned"
             /\ sync'[k].halvings # sync[k].halvings
                   => /\ sync'[k].halvings = sync[k].halvings + 1
                      /\ still_open(_current_value)
                      /\ _current_value' = Quot(_current_value.num,
                                                2 * _current_value.den)
                      /\ mouth' = _current_value'
             /\ (sync'[k].pc = "closed" /\ sync[k].pc # "closed")
                   => /\ ~still_open(_current_value)
                      /\ _current_value' = Zero
                      /\ mouth' = Zero
             /\ (sync'[k].pc = "returned" /\ sync[k].pc # "returned")
                   => ~_is_syncing']_vars
    /\ \A k \in SyncCalls : Animating(k) ~> sync[k].pc = "returned"

\* C32 witness: a call has returned after its frames, its closing having halved
\* the value seven times; the mouth is at 0 and no call is syncing
C32_Witness ==
    \E k \in SyncCalls :
        /\ sync[k].pc = "returned"
        /\ sync[k].halvings = 7
        /\ sync[k].frames = 0
        /\ mouth = Zero
        /\ ~_is_syncing

\* comment c is held by the queue
Held(c) == \E n \in 1..Len(_queue) : _queue[n] = c

\* comment c has been popped and its turn is under way
InTurn(c) == \E i \in Generations : loop[i].comment = c /\ loop[i].pc \in TurnStages

\* every comment the chat source that falls silent can send
AllFairComments ==
    { Comment(id, <<"h", "i">>, FALSE, FALSE, d, 0) :
        id \in 1..NumFairIds, d \in {0, 500} }

\* C33: in a pipeline that stays running under a fair event loop, every comment
\* held by the queue is eventually popped and given a turn, whatever its
\* priority, and a queue that holds comments eventually becomes empty.
C33_NoStarvation ==
    /\ \A c \in AllFairComments : Held(c) ~> InTurn(c)
    /\ (_queue # <<>>) ~> (_queue = <<>>)

\* C33 witness: a comment of priority 0 that waited behind a donor's comment
\* is in its turn, the second, and the queue is empty
C33_Witness ==
    \E i \in Generations :
        /\ _running
        /\ loop[i].pc \in TurnStages
        /\ loop[i].comment.priority = 0
        /\ loop[i].comment.id = 1
        /\ loop[i].turn = 2
        /\ _queue = <<>>
        /\ Cardinality(accepted_ids) = 2

Quiescent ==
    /\ api.start = "idle"
    /\ api.stop = "idle"
    /\ counters.pending = 0
    /\ \A i \in Generations : start_frame[i] = "none" \/ StartEnded(i)

\* C35: the status the operator sees is RUNNING only while the pipeline runs:
\* once a start() call has ended, by the error of chat_client.connect() or by
\* the end of its tasks, and nothing else is in progress, the status is not
\* RUNNING.
C35_RunningOnlyWhileRunning ==
    (Quiescent /\ ~_running /\ \E i \in Generations : StartEnded(i))
        => pipeline_status # "running"

\* C36: once stop() has returned, the animation that was in progress sends no
\* further mouth value: the mouth stays at 0 as long as no sync_with_audio call
\* has started since stop() was called.
C36_StopEndsAnimation ==
    (sync[StopCall].pc = "returned" /\ \A k \in SyncCalls : ~sync[k].after_stop)
        => mouth = Zero

\* C37: whenever the playback of a response is started with an avatar
\* connected, the lip sync animation of that audio runs too: the sync_with_audio
\* call made with a play call is never the one that returns at once.
C37_AnimationWithEveryPlayback ==
    \A k \in SyncCalls : play[k] # "none" => sync[k].pc # "ignored"

\* the memory holds the user entry of turn t followed by its assistant entry
HoldsTurn(messages, comment, t) ==
    \E j \in 1..(Len(messages) - 1) :
        /\ messages[j] = Message("user", comment.message, t)
        /\ messages[j + 1] = Message("assistant", Response, t)

\* C38: a turn changes the short-term memory exactly when its response
\* generation succeeded: the step in which generate_response raises leaves the
\* memory as it was, the step in which it returns adds the user and the
\* assistant entry, and when synthesis or playback ends afterwards, by
\* returning or by raising, both entries are in the memory and stay there.
C38_MemoryChangesIffGenerated ==
    [][\A i \in Generations :
          AdapterCallEnds(i)
             => /\ (_messages' # _messages)
                      <=> (AtStage(i, "generate") /\ loop'[i].pc \in TurnStages)
                /\ (AtStage(i, "generate") /\ loop'[i].pc \in TurnStages)
                      => /\ Len(_messages') = Len(_messages) + 2
                         /\ HoldsTurn(_messages', loop[i].comment, loop[i].turn)
                /\ StageRank(loop[i].pc) >= 5
                      => HoldsTurn(_messages', loop[i].comment, loop[i].turn)]_vars

\* C38 witness: in a pipeline without expression controller and long-term
\* memory, whose turns can only fail in generation, synthesis or playback, a
\* turn whose generation raised has left nothing in the memory and a later
\* turn that failed after its generation has left its two entries
C38_Witness ==
    \E i \in Generations :
        /\ ~_expression_controller /\ ~memory_retriever
        /\ task[i]["comment_processor"] = "running"
        /\ loop[i].pc = "sleep"
        /\ failed.tasks = i
        /\ failed.turn = 2
        /\ Len(_messages) = 2
        /\ _messages[1].role = "user" /\ _messages[1].turn = 2
        /\ _messages[2].role = "assistant" /\ _messages[2].turn = 2

\* C40: after every process_text call the current emotion of the controller is
\* the emotion of the last expression the avatar accepted: a set_expression
\* call that raises does not advance it.
C40_CurrentEmotionIsShown ==
    expression.call = "none" => expression_name(_current_emotion) = expression.accepted

\* C39: after any number of start()/stop() cycles on the same pipeline and chat
\* client the admission callback is registered at most once.
C39_CallbackRegisteredOnce == _callbacks <= 1

====
